---- MODULE Spec2Model ----
(***************************************************************************)
(* Model of the index resource of terraform-provider-mongodb.              *)
(*                                                                         *)
(* The repository holds two generations of the index resource:            *)
(*   - the typed generation: src/unnamed/part_000 (resource) on top of     *)
(*     src/internal/mongodb/index.go (client), and                         *)
(*   - the JSON generation: src/internal/provider/index_resource.go        *)
(*     (resource) on top of src/internal/mongodb/types_index.go (client).  *)
(* Definitions of the typed generation keep the source's names; those of   *)
(* the JSON generation carry the suffix J.                                 *)
(*                                                                         *)
(* An optional (nullable) value is <<>> when null and <<v>> when set.      *)
(* A Go map is a TLA+ function with a finite domain of strings.            *)
(***************************************************************************)
EXTENDS Integers, Sequences, FiniteSets, TLC

VARIABLES
    vgen,       \* validation: generation under validation, "typed" or "json"
    vconfig,    \* validation: the configuration handed to ValidateConfig
    vdiags,     \* validation: resp.Diagnostics after ValidateConfig
    vpc,        \* validation: "start" before the call, "done" after it
    kdeclared,  \* key codec: the declared key list (Index.Keys), or Null
    ksent,      \* key codec: the key document toBson emitted, and which toBson
    kraw,       \* key codec: the listing entry the database holds, or Null
    kdecoded,   \* key codec: the key list decoded from the listing entry
    kpc,        \* key codec: "declared", "stored", "decoded" or "idle"
    generation, \* lifecycle: the generation of the resource, "typed" or "json"
    indexes,    \* lifecycle: the listing of the collection, in creation order
    tfstate,    \* lifecycle: the resource's state, Null when it has none
    diags,      \* lifecycle: resp.Diagnostics of the last handler call
    pc,         \* lifecycle: "created" between CreateOne and the read-back
    inflight,   \* lifecycle: the plan of the Create call in progress
    lastOp,     \* lifecycle: the handler called last
    lastGet,    \* lifecycle: the last GetIndex call: options, listing, result
    lastCreate, \* lifecycle: the last CreateIndex call: plan, Index, command
    client,     \* lifecycle: the client operation of the last handler call:
                \* the database calls it issued and the error it returned
    dropKind,   \* lifecycle: per index name, who dropped it last, if dropped
    importID    \* lifecycle: the ID of the last ImportState request, or Null

vvars == <<vgen, vconfig, vdiags, vpc>>
kvars == <<kdeclared, ksent, kraw, kdecoded, kpc>>
lvars ==
    <<generation, indexes, tfstate, diags, pc, inflight, lastOp, lastGet, lastCreate,
      client, dropKind, importID>>
vars == <<vvars, kvars, lvars>>

----------------------------------------------------------------------------
(* Optional values and maps *)

Null == <<>>
Some(v) == <<v>>
IsNull(o) == o = <<>>
Val(o) == o[1]

EmptyMap == <<>>

\* the variables of a part that a specification does not use
IdleKeys ==
    kdeclared = Null /\ ksent = Null /\ kraw = Null /\ kdecoded = Null /\ kpc = "idle"
IdleValidate == vgen = "none" /\ vconfig = Null /\ vdiags = <<>> /\ vpc = "idle"
IdleLifecycle ==
    /\ generation = "none" /\ indexes = <<>> /\ tfstate = Null /\ diags = <<>>
    /\ pc = "off" /\ inflight = Null /\ lastOp = "none" /\ lastGet = Null
    /\ lastCreate = Null /\ client = Null /\ dropKind = <<>>
    /\ importID = Null
MapsOver(D, V) == UNION {[S -> V] : S \in SUBSET D}
MapsOn(Ds, V) == UNION {[S -> V] : S \in Ds}

----------------------------------------------------------------------------
(* Go strings package, as used by the handlers *)

HasSuffix(s, suf) ==
    /\ Len(s) >= Len(suf)
    /\ SubSeq(s, Len(s) - Len(suf) + 1, Len(s)) = suf

HasPrefix(s, pre) ==
    /\ Len(s) >= Len(pre)
    /\ SubSeq(s, 1, Len(pre)) = pre

LowerChar(c) ==
    CASE c = "A" -> "a" [] c = "B" -> "b" [] c = "C" -> "c" [] c = "D" -> "d"
      [] c = "E" -> "e" [] c = "F" -> "f" [] c = "G" -> "g" [] c = "H" -> "h"
      [] c = "I" -> "i" [] c = "J" -> "j" [] c = "K" -> "k" [] c = "L" -> "l"
      [] c = "M" -> "m" [] c = "N" -> "n" [] c = "O" -> "o" [] c = "P" -> "p"
      [] c = "Q" -> "q" [] c = "R" -> "r" [] c = "S" -> "s" [] c = "T" -> "t"
      [] c = "U" -> "u" [] c = "V" -> "v" [] c = "W" -> "w" [] c = "X" -> "x"
      [] c = "Y" -> "y" [] c = "Z" -> "z" [] OTHER -> c

RECURSIVE ToLower(_)
ToLower(s) ==
    IF Len(s) = 0 THEN ""
    ELSE LowerChar(SubSeq(s, 1, 1)) \o ToLower(SubSeq(s, 2, Len(s)))

\* strings.Index: position of the first occurrence of sep in s, 0 when absent
\* (Go returns -1 and counts from 0).
IndexOf(s, sep) ==
    LET hits == {i \in 1..(Len(s) - Len(sep) + 1) : SubSeq(s, i, i + Len(sep) - 1) = sep}
    IN  IF hits = {} THEN 0
        ELSE CHOOSE i \in hits : \A j \in hits : i <= j

Contains(s, sep) == IndexOf(s, sep) # 0

\* strings.Split(s, sep) for a non-empty sep
RECURSIVE Split(_, _)
Split(s, sep) ==
    LET i == IndexOf(s, sep)
    IN  IF i = 0 THEN <<s>>
        ELSE <<SubSeq(s, 1, i - 1)>> \o Split(SubSeq(s, i + Len(sep), Len(s)), sep)

----------------------------------------------------------------------------
(* Diagnostics *)

\* One error diagnostic: summary and detail as passed to AddError; subject is
\* the operator, field or name that the detail text is formatted with.
Diag(summary, detail, subject) ==
    [summary |-> summary, detail |-> detail, subject |-> subject]
HasError(ds) == Len(ds) > 0
Reports(ds, summary, detail) ==
    \E i \in 1..Len(ds) : ds[i].summary = summary /\ ds[i].detail = detail

ErrTTL == "Invalid TTL Index Configuration"
TTLWildcardDetail == "cannot be used with wildcard indexes"
TTLDateDetail == "requires a date field"
ErrProjection == "Invalid wildcard projection"
ProjectionMixDetail == "Cannot mix inclusions (1) and exclusions (0)"
ErrProjectionValue == "Invalid wildcard projection value"
ProjectionValueDetail == "Values must be 1 or 0"
ProjectionParseDetail == "Invalid JSON in wildcard_projection"
ErrWeight == "Invalid weight value"
WeightDetail == "Weight must be positive"
ErrTextVersion == "Invalid text index version"
TextVersionDetail == "Text index version must be between 1 and 3"
ErrFilter == "Invalid partial filter expression"
FilterDetail == "Operator is not supported"
ErrFilterParse == "Error parsing partial filter expression"
FilterParseDetail == "Invalid JSON in partial_filter_expression"
ErrCollation == "Invalid collation"
CollationParseDetail == "Invalid JSON in collation"
CollationLocaleDetail == "Collation must include 'locale' field as string"
ErrKeyType == "Invalid Attribute Value Match"
KeyTypeDetail == "value must be one of the listed key types"

----------------------------------------------------------------------------
(* Validation, typed generation (src/unnamed/part_000) *)

IndexKey(field, type) == [Field |-> field, Type |-> type]

\* stringvalidator.OneOf on keys.type in Schema
KeyTypes == {"1", "-1", "2dsphere", "text", "2d", "wildcard", "hashed"}

validOperators ==
    {"$eq", "$exists", "$gt", "$gte", "$lt", "$lte", "$type", "$and", "$or", "$in"}

HasKeyOfType(keys, type) == \E i \in 1..Len(keys) : keys[i].Type = type

\* mutant: the field name is not lower-cased before the suffix test
hasDateField_CaseSensitive(keys) ==
    \E i \in 1..Len(keys) :
        \/ HasSuffix(keys[i].Field, "at")
        \/ HasSuffix(keys[i].Field, "date")
        \/ HasSuffix(keys[i].Field, "time")

hasDateField(keys) ==
    \E i \in 1..Len(keys) :
        LET fieldName == ToLower(keys[i].Field)
        IN  \/ HasSuffix(fieldName, "at")
            \/ HasSuffix(fieldName, "date")
            \/ HasSuffix(fieldName, "time")

\* Each check below yields the set of error diagnostics the block can add
\* before it returns: empty when the block passes, more than one element
\* when the outcome depends on Go's map iteration order.

\* mutant: the wildcard test of the TTL block is missing
ValidateTTL_NoWildcardCheck(config) ==
    IF IsNull(config.expire_after_seconds) THEN {}
    ELSE IF ~hasDateField(config.keys)
         THEN {Diag(ErrTTL, TTLDateDetail, "")}
    ELSE {}

ValidateTTL(config) ==
    IF IsNull(config.expire_after_seconds) THEN {}
    ELSE IF HasKeyOfType(config.keys, "wildcard")
         THEN {Diag(ErrTTL, TTLWildcardDetail, "")}
    ELSE IF ~hasDateField(config.keys)
         THEN {Diag(ErrTTL, TTLDateDetail, "")}
    ELSE {}

\* mutant: the polarity test uses "or" instead of "and"
ValidateWildcardProjection_Or(config) ==
    IF IsNull(config.wildcard_projection) THEN {}
    ELSE LET projection == Val(config.wildcard_projection)
             other == {k \in DOMAIN projection : projection[k] \notin {0, 1}}
             hasInclusion == \E k \in DOMAIN projection : projection[k] = 1
             hasExclusion == \E k \in DOMAIN projection : projection[k] = 0
         IN  IF other # {}
             THEN {Diag(ErrProjectionValue, ProjectionValueDetail, k) : k \in other}
             ELSE IF hasInclusion \/ hasExclusion
                  THEN {Diag(ErrProjection, ProjectionMixDetail, "")}
                  ELSE {}

ValidateWildcardProjection(config) ==
    IF IsNull(config.wildcard_projection) THEN {}
    ELSE LET projection == Val(config.wildcard_projection)
             other == {k \in DOMAIN projection : projection[k] \notin {0, 1}}
             hasInclusion == \E k \in DOMAIN projection : projection[k] = 1
             hasExclusion == \E k \in DOMAIN projection : projection[k] = 0
         IN  IF other # {}
             THEN {Diag(ErrProjectionValue, ProjectionValueDetail, k) : k \in other}
             ELSE IF hasInclusion /\ hasExclusion
                  THEN {Diag(ErrProjection, ProjectionMixDetail, "")}
                  ELSE {}

\* mutant: a weight of zero is accepted
ValidateWeights_ZeroAccepted(config) ==
    IF ~HasKeyOfType(config.keys, "text") \/ IsNull(config.weights) THEN {}
    ELSE LET weights == Val(config.weights)
         IN  {Diag(ErrWeight, WeightDetail, field) :
                 field \in {f \in DOMAIN weights : weights[f] < 0}}

ValidateWeights(config) ==
    IF ~HasKeyOfType(config.keys, "text") \/ IsNull(config.weights) THEN {}
    ELSE LET weights == Val(config.weights)
         IN  {Diag(ErrWeight, WeightDetail, field) :
                 field \in {f \in DOMAIN weights : weights[f] <= 0}}

\* mutant: the upper limit of the version is off by one
ValidateTextIndexVersion_OffByOne(config) ==
    IF ~HasKeyOfType(config.keys, "text") \/ IsNull(config.text_index_version) THEN {}
    ELSE LET version == Val(config.text_index_version)
         IN  IF version < 1 \/ version > 4
             THEN {Diag(ErrTextVersion, TextVersionDetail, "")}
             ELSE {}

ValidateTextIndexVersion(config) ==
    IF ~HasKeyOfType(config.keys, "text") \/ IsNull(config.text_index_version) THEN {}
    ELSE LET version == Val(config.text_index_version)
         IN  IF version < 1 \/ version > 3
             THEN {Diag(ErrTextVersion, TextVersionDetail, "")}
             ELSE {}

\* the operator the flat-key check derives from one key of the filter map
FilterKeyOperator(k) ==
    IF Contains(k, ".$") /\ Len(Split(k, ".$")) > 1
    THEN Some("$" \o Split(k, ".$")[2])
    ELSE Null

ValidatePartialFilterExpression(config) ==
    IF IsNull(config.partial_filter_expression) THEN {}
    ELSE LET filterExpr == Val(config.partial_filter_expression)
             bad == {k \in DOMAIN filterExpr :
                        /\ ~IsNull(FilterKeyOperator(k))
                        /\ Val(FilterKeyOperator(k)) \notin validOperators}
         IN  {Diag(ErrFilter, FilterDetail, Val(FilterKeyOperator(k))) : k \in bad}

\* IndexResource.ValidateConfig: the checks run in source order and the
\* handler returns at the first error.  The result is the set of possible
\* contents of resp.Diagnostics.
FirstError(checks) ==
    LET failing == {i \in 1..Len(checks) : checks[i] # {}}
    IN  IF failing = {} THEN {<<>>}
        ELSE {<<d>> : d \in checks[CHOOSE i \in failing : \A j \in failing : i <= j]}

ValidateConfig(config) ==
    FirstError(<<ValidateTTL(config),
                 ValidateWildcardProjection(config),
                 ValidateWeights(config),
                 ValidateTextIndexVersion(config),
                 ValidatePartialFilterExpression(config)>>)

----------------------------------------------------------------------------
(* Validation, JSON generation (src/internal/provider/index_resource.go) *)

\* A JSON attribute is a string in the configuration; it is modelled by the
\* value json.Unmarshal produces from it, or JInvalid when the text is not
\* JSON.  JSON numbers decode as float64.
JInvalid == [t |-> "invalid"]
JObj(m) == [t |-> "obj", m |-> m]
JArr(a) == [t |-> "arr", a |-> a]
JStr(s) == [t |-> "str", s |-> s]
JNum(n) == [t |-> "num", n |-> n]
JBool(b) == [t |-> "bool", b |-> b]

\* json.Unmarshal(..., &map[string]interface{}) succeeds only on an object
UnmarshalOK(doc) == doc.t = "obj"

KeyTypesJ == {"1", "-1", "2dsphere", "text"}

RECURSIVE checkOperators(_)
\* the operators checkOperators can report first (it stops at the first one);
\* empty when it returns true
checkOperators(v) ==
    IF v.t = "obj"
    THEN UNION {IF HasPrefix(k, "$") /\ k \notin validOperators
                THEN {k}
                ELSE checkOperators(v.m[k]) : k \in DOMAIN v.m}
    ELSE IF v.t = "arr"
    THEN LET failing == {i \in 1..Len(v.a) : checkOperators(v.a[i]) # {}}
         IN  IF failing = {} THEN {}
             ELSE checkOperators(v.a[CHOOSE i \in failing : \A j \in failing : i <= j])
    ELSE {}

ValidateTTLJ(config) ==
    IF ~IsNull(config.expire_after_seconds) /\ ~hasDateField(config.keys)
    THEN <<Diag(ErrTTL, TTLDateDetail, "")>>
    ELSE <<>>

ValidateWildcardProjectionJ(config) ==
    IF IsNull(config.wildcard_projection) THEN {}
    ELSE LET doc == Val(config.wildcard_projection)
         IN  IF ~UnmarshalOK(doc)
             THEN {Diag(ErrProjection, ProjectionParseDetail, "")}
             ELSE LET projection == doc.m
                      hasInclusion == \E k \in DOMAIN projection :
                          projection[k].t = "num" /\ projection[k].n = 1
                      hasExclusion == \E k \in DOMAIN projection :
                          projection[k].t = "num" /\ projection[k].n = 0
                  IN  IF hasInclusion /\ hasExclusion
                      THEN {Diag(ErrProjection, ProjectionMixDetail, "")}
                      ELSE {}

ValidateCollationJ(config) ==
    IF IsNull(config.collation) THEN {}
    ELSE LET doc == Val(config.collation)
         IN  IF ~UnmarshalOK(doc)
             THEN {Diag(ErrCollation, CollationParseDetail, "")}
             ELSE IF "locale" \notin DOMAIN doc.m \/ doc.m["locale"].t # "str"
                  THEN {Diag(ErrCollation, CollationLocaleDetail, "")}
                  ELSE {}

ValidatePartialFilterExpressionJ(config) ==
    IF IsNull(config.partial_filter_expression) THEN {}
    ELSE LET doc == Val(config.partial_filter_expression)
         IN  IF ~UnmarshalOK(doc)
             THEN {Diag(ErrFilterParse, FilterParseDetail, "")}
             ELSE {Diag(ErrFilter, FilterDetail, op) : op \in checkOperators(doc)}

\* IndexResource.ValidateConfig of the JSON generation: the TTL block adds
\* its error without returning; every later block returns at its error.
ValidateConfigJ(config) ==
    {ValidateTTLJ(config) \o rest :
        rest \in FirstError(<<ValidateWildcardProjectionJ(config),
                              ValidateCollationJ(config),
                              ValidatePartialFilterExpressionJ(config)>>)}

\* the OneOf validator of keys.type in Schema, which the framework runs
\* together with ValidateConfig when it validates a configuration
ValidateKeyTypesJ(keys) ==
    IF \E i \in 1..Len(keys) : keys[i].Type \notin KeyTypesJ
    THEN <<Diag(ErrKeyType, KeyTypeDetail, "")>>
    ELSE <<>>


----------------------------------------------------------------------------
(* BSON values as the driver hands them to Go code *)

B32(n) == [t |-> "int32", n |-> n]
B64(n) == [t |-> "int64", n |-> n]
BDbl(n) == [t |-> "float64", n |-> n]
BStr(s) == [t |-> "string", s |-> s]
BBool(b) == [t |-> "bool", b |-> b]
\* a document: rep is the Go type it was decoded into, "M" (bson.M, a map
\* without order) or "D" (bson.D, an ordered slice); e is the sequence of
\* <<key, value>> elements in stored order
BDoc(rep, e) == [t |-> "doc", rep |-> rep, e |-> e]

\* A listing entry (a decoded bson.M) is a function from the names of the
\* fields it carries to their values.  m[k].(T) succeeds for:
HasOfType(m, k, type) == k \in DOMAIN m /\ m[k].t = type
IsDocOf(m, k, rep) == k \in DOMAIN m /\ m[k].t = "doc" /\ m[k].rep = rep

DocHas(d, k) == \E i \in 1..Len(d.e) : d.e[i][1] = k
DocGet(d, k) == d.e[CHOOSE i \in 1..Len(d.e) : d.e[i][1] = k][2]

Digit(d) == SubSeq("0123456789", d + 1, d + 1)
RECURSIVE NatToString(_)
NatToString(n) == IF n < 10 THEN Digit(n) ELSE NatToString(n \div 10) \o Digit(n % 10)
IntToString(n) == IF n < 0 THEN "-" \o NatToString(-n) ELSE NatToString(n)

\* a float64 with a fraction, held as its shortest decimal literal
BDblLit(lit) == [t |-> "float64", lit |-> lit]

RECURSIVE SprintElems(_, _)
\* fmt.Sprintf("%v", value): a float64 with an integral value prints without
\* a fraction, a map prints as map[k:v k:v]
Sprintv(value) ==
    CASE value.t = "string" -> value.s
      [] value.t = "bool" -> IF value.b THEN "true" ELSE "false"
      [] value.t = "doc" -> "map[" \o SprintElems(value.e, 1) \o "]"
      [] value.t = "float64" /\ "lit" \in DOMAIN value -> value.lit
      [] OTHER -> IntToString(value.n)
SprintElems(e, i) ==
    IF i > Len(e) THEN ""
    ELSE (IF i > 1 THEN " " ELSE "") \o e[i][1] \o ":" \o Sprintv(e[i][2])
         \o SprintElems(e, i + 1)

\* the orders in which a range over a Go map can visit a sequence of elements
Orders(seq) ==
    {[i \in 1..Len(seq) |-> seq[f[i]]] :
        f \in {g \in [1..Len(seq) -> 1..Len(seq)] :
                  \A i, j \in 1..Len(seq) : i # j => g[i] # g[j]}}

SeqToSet(seq) == {seq[i] : i \in 1..Len(seq)}

----------------------------------------------------------------------------
(* Key codec: IndexKeys.toBson, the database, and the two decoders *)

\* the switch of toBson; the Go int it yields is encoded as a BSON int32
toBsonValue(type) ==
    CASE type \in {"1", "asc"} -> B32(1)
      [] type \in {"-1", "desc"} -> B32(-1)
      [] type = "2dsphere" -> BStr("2dsphere")
      [] type = "wildcard" -> B32(1)
      [] type = "text" -> BStr("text")
      [] OTHER -> B32(1)

toBson(keys) == [i \in 1..Len(keys) |-> <<keys[i].Field, toBsonValue(keys[i].Type)>>]

\* toBson of the JSON generation: no case for "wildcard", which takes the default
toBsonValueJ(type) ==
    CASE type \in {"1", "asc"} -> B32(1)
      [] type \in {"-1", "desc"} -> B32(-1)
      [] type = "2dsphere" -> BStr("2dsphere")
      [] type = "text" -> BStr("text")
      [] OTHER -> B32(1)

toBsonJ(keys) == [i \in 1..Len(keys) |-> <<keys[i].Field, toBsonValueJ(keys[i].Type)>>]

\* The database's stored form of a key document sent by CreateOne: the text
\* fields are replaced, at the place of the first one, by the marker
\* elements _fts: "text", _ftsx: 1, and each text field gets a weight
\* (1 unless the command carries one); other elements are stored as sent.
RECURSIVE StoredKeyElems(_, _)
StoredKeyElems(elems, seenText) ==
    IF elems = <<>> THEN <<>>
    ELSE IF Head(elems)[2] = BStr("text")
         THEN (IF seenText THEN <<>> ELSE <<<<"_fts", BStr("text")>>, <<"_ftsx", B32(1)>>>>)
              \o StoredKeyElems(Tail(elems), TRUE)
         ELSE <<Head(elems)>> \o StoredKeyElems(Tail(elems), seenText)

TextFields(elems) == {elems[i][1] : i \in {j \in 1..Len(elems) : elems[j][2] = BStr("text")}}

RECURSIVE StoredWeights(_, _)
\* the weights document of a text index, in key order
StoredWeights(elems, weights) ==
    IF elems = <<>> THEN <<>>
    ELSE (IF Head(elems)[2] = BStr("text")
          THEN <<<<Head(elems)[1],
                   B32(IF Head(elems)[1] \in DOMAIN weights THEN weights[Head(elems)[1]] ELSE 1)>>>>
          ELSE <<>>)
         \o StoredWeights(Tail(elems), weights)

\* GetIndex, "Decode keys": the key lists the typed generation can return
\* for one listing entry; a set because a Go map is ranged over in any order.
\* Null is the nil slice left when the entry has no key document of type bson.M.
DecodeKeys(rawIndex) ==
    IF ~IsDocOf(rawIndex, "key", "M")
    THEN {Null}
    ELSE LET keyValue == rawIndex["key"]
             isTextIndex == DocHas(keyValue, "_fts") /\ DocGet(keyValue, "_fts") = BStr("text")
             hasWeights ==
                 IsDocOf(rawIndex, "weights", "M") /\ Len(rawIndex["weights"].e) > 0
             fieldType(field, value) ==
                 IF field = "$**" /\ value = B32(1) THEN "wildcard"
                 ELSE IF value = B32(1) THEN "1"
                 ELSE IF value = B32(-1) THEN "-1"
                 ELSE Sprintv(value)
         IN  IF isTextIndex
             THEN IF hasWeights
                  THEN {Some(ks) : ks \in Orders(
                            [i \in 1..Len(rawIndex["weights"].e) |->
                                IndexKey(rawIndex["weights"].e[i][1], "text")])}
                  ELSE {Some(<<IndexKey("_fts", "text")>>)}
             ELSE {Some(ks) : ks \in Orders(
                       [i \in 1..Len(keyValue.e) |->
                           IndexKey(keyValue.e[i][1], fieldType(keyValue.e[i][1], keyValue.e[i][2]))])}

\* convertBsonToIndex, key loop: Null is the nil slice left when the entry
\* has no key document of type bson.D
convertKeys(bsonIndex) ==
    IF ~IsDocOf(bsonIndex, "key", "D")
    THEN Null
    ELSE LET key == bsonIndex["key"]
             keyType(value) ==
                 IF value \in {B32(1), B64(1), BDbl(1)} THEN "1"
                 ELSE IF value \in {B32(-1), B64(-1), BDbl(-1)} THEN "-1"
                 ELSE IF value = BStr("2dsphere") THEN "2dsphere"
                 ELSE IF value = BStr("text") THEN "text"
                 ELSE "1"
         IN  IF Len(key.e) = 0 THEN Null  \* nothing appended: the slice stays nil
             ELSE Some([i \in 1..Len(key.e) |-> IndexKey(key.e[i][1], keyType(key.e[i][2]))])

----------------------------------------------------------------------------
(* Configurations handed to ValidateConfig *)

MaxKeys == 2
MaxProjection == 2
MaxTextVersion == 4

VFields == {"createdAt", "expireDate", "EventTIME", "name"}
VTypes == {"1", "text", "wildcard"}

\* key lists of at most n keys with pairwise distinct field names
RECURSIVE KeyListsOf(_, _, _)
KeyListsOf(fields, types, n) ==
    IF n = 0 THEN {<<>>}
    ELSE {<<>>} \cup
         UNION {{<<IndexKey(f, t)>> \o rest :
                     rest \in KeyListsOf(fields \ {f}, types, n - 1)} :
                f \in fields, t \in types}

VKeyLists == KeyListsOf(VFields, VTypes, MaxKeys)
VExpire == {Null, Some(0), Some(60)}
VProjections ==
    {Null} \cup {Some(m) : m \in MapsOn({{}, {"a"}, {"a", "b"}}, 0..MaxProjection)}
VWeights ==
    {Null} \cup {Some(m) : m \in MapsOn({{"title", "body"}}, {-1, 0, 1, 5})}
VTextVersions == {Null} \cup {Some(v) : v \in 0..MaxTextVersion}
VFilters ==
    {Null} \cup {Some(m) : m \in MapsOver({"status", "status.$eq", "status.$regex", "$regex"}, {"x"})}

\* a valid and an invalid value of every attribute, used as the context of
\* the attribute that is varied over its whole set
CProjections == {Null, Some([a |-> 1]), Some([a |-> 1, b |-> 0])}
CWeights == {Null, Some([title |-> 5, body |-> 1]), Some([title |-> 5, body |-> -1])}
CTextVersions == {Null, Some(3), Some(4)}
CFilters == {Null, Some([x \in {"status.$eq"} |-> "x"]), Some([x \in {"status.$regex"} |-> "x"])}

ConfigsOf(projections, weights, versions, filters) ==
    [keys : VKeyLists,
     expire_after_seconds : VExpire,
     wildcard_projection : projections,
     weights : weights,
     text_index_version : versions,
     partial_filter_expression : filters]

TypedConfigs ==
    ConfigsOf(VProjections, CWeights, CTextVersions, CFilters)
    \cup ConfigsOf(CProjections, VWeights, CTextVersions, CFilters)
    \cup ConfigsOf(CProjections, CWeights, VTextVersions, CFilters)
    \cup ConfigsOf(CProjections, CWeights, CTextVersions, VFilters)

\* JSON documents of the JSON generation's attributes
MaxDepth == 3

JFilterKeys == {"status", "$eq", "$regex", "$and"}

RECURSIVE JDocs(_)
\* documents nested at most n levels deep through objects and arrays
JDocs(n) ==
    IF n = 0 THEN {JStr("x")}
    ELSE LET inner == JDocs(n - 1)
         IN  inner \cup {JObj(k :> d) : k \in JFilterKeys, d \in inner}
                   \cup {JArr(<<d>>) : d \in inner}

JFiltersOf(n) ==
    {JObj(k :> d) : k \in JFilterKeys, d \in JDocs(n - 1)}
    \cup {JObj(("a" :> d1) @@ ("b" :> d2)) : d1, d2 \in JDocs(n - 2)}
    \cup {JObj(("$where" :> d1) @@ ("b" :> d2)) : d1, d2 \in JDocs(n - 2)}

JProjectionValues == {JNum(n) : n \in 0..MaxProjection} \cup {JBool(TRUE)}

VFiltersJ == {Null, Some(JInvalid), Some(JObj(EmptyMap))} \cup {Some(d) : d \in JFiltersOf(MaxDepth)}
VProjectionsJ ==
    {Null, Some(JInvalid), Some(JArr(<<>>))}
    \cup {Some(JObj(m)) : m \in MapsOn({{}, {"a", "b"}}, JProjectionValues)}
VCollationsJ ==
    {Null, Some(JInvalid), Some(JObj("locale" :> JStr("en"))),
     Some(JObj("locale" :> JNum(1))), Some(JObj("strength" :> JNum(2)))}

CKeyLists == {<<>>, <<IndexKey("createdAt", "1")>>, <<IndexKey("name", "text")>>}
CExpire == {Null, Some(60)}
CFiltersJ ==
    {Null, Some(JObj("status" :> JObj("$eq" :> JStr("x")))),
     Some(JObj("status" :> JObj("$regex" :> JStr("x"))))}
CProjectionsJ ==
    {Null, Some(JObj("a" :> JNum(1))), Some(JObj(("a" :> JNum(1)) @@ ("b" :> JNum(0))))}
CCollationsJ == {Null, Some(JObj("locale" :> JStr("en"))), Some(JInvalid)}

ConfigsOfJ(keys, expire, projections, collations, filters) ==
    [keys : keys,
     expire_after_seconds : expire,
     wildcard_projection : projections,
     collation : collations,
     partial_filter_expression : filters]

JsonConfigs ==
    ConfigsOfJ(VKeyLists, VExpire, CProjectionsJ, CCollationsJ, CFiltersJ)
    \cup ConfigsOfJ(CKeyLists, CExpire, VProjectionsJ, CCollationsJ, CFiltersJ)
    \cup ConfigsOfJ(CKeyLists, CExpire, CProjectionsJ, VCollationsJ, CFiltersJ)
    \cup ConfigsOfJ(CKeyLists, CExpire, CProjectionsJ, CCollationsJ, VFiltersJ)

----------------------------------------------------------------------------
(* Specification of validation: the framework hands one configuration to    *)
(* ValidateConfig, which fills resp.Diagnostics.                            *)

InitValidate ==
    /\ IdleLifecycle
    /\ \/ vgen = "typed" /\ vconfig \in TypedConfigs
       \/ vgen = "json" /\ vconfig \in JsonConfigs
    /\ vdiags = <<>>
    /\ vpc = "start"
    /\ IdleKeys

DoValidateConfig ==
    /\ vpc = "start"
    /\ vgen = "typed"
    /\ vdiags' \in ValidateConfig(vconfig)
    /\ vpc' = "done"
    /\ UNCHANGED <<vgen, vconfig, kvars, lvars>>

DoValidateConfigJ ==
    /\ vpc = "start"
    /\ vgen = "json"
    /\ vdiags' \in ValidateConfigJ(vconfig)
    /\ vpc' = "done"
    /\ UNCHANGED <<vgen, vconfig, kvars, lvars>>

NextValidate == DoValidateConfig \/ DoValidateConfigJ

SpecValidate == InitValidate /\ [][NextValidate]_vars

TypeOKV == vpc \in {"start", "done"}

----------------------------------------------------------------------------
(* Specification of the key codec: a declared key list is converted by      *)
(* toBson, stored by the database and decoded from the listing; or a key   *)
(* document that another client created is decoded from the listing.       *)

KFields == {"a", "b", "$**", "a.$**"}
\* the database refuses an index without keys
KKeyLists == KeyListsOf(KFields, KeyTypes, MaxKeys) \ {<<>>}

\* raw key values found in listings: the values toBson emits and values
\* that only other clients create
RawKeyValues ==
    {B32(1), B32(-1), B32(3), B64(1), BDbl(-1),
     BStr("2dsphere"), BStr("hashed"), BStr("2d")}

RECURSIVE RawKeyElems(_, _)
RawKeyElems(fields, n) ==
    IF n = 0 THEN {<<>>}
    ELSE {<<>>} \cup
         UNION {{<<<<f, v>>>> \o rest : rest \in RawKeyElems(fields \ {f}, n - 1)} :
                f \in fields, v \in RawKeyValues}

\* the Go type the driver decodes a nested document into
DocReps == {"M", "D"}

\* key documents of text indexes as the database stores them: the marker
\* elements, alone or after or before an element of another kind
TextMarker == <<<<"_fts", BStr("text")>>, <<"_ftsx", B32(1)>>>>
RawTextKeyElems ==
    {TextMarker, <<<<"a", B32(1)>>>> \o TextMarker, TextMarker \o <<<<"b", B32(-1)>>>>}

\* the weights a listing entry of a text index carries: none, an empty
\* document, or one weight per text field
RawWeights(rep) ==
    {EmptyMap,
     "weights" :> BDoc(rep, <<>>),
     "weights" :> BDoc(rep, <<<<"title", B32(1)>>>>),
     "weights" :> BDoc(rep, <<<<"title", B32(5)>>, <<"body", B32(1)>>>>)}

InitKeys ==
    /\ IdleValidate
    /\ IdleLifecycle
    /\ kdecoded = Null
    /\ ksent = Null
    /\ \/ /\ kpc = "declared"
          /\ kdeclared \in {Some(ks) : ks \in KKeyLists}
          /\ kraw = Null
       \/ /\ kpc = "stored"
          /\ kdeclared = Null
          /\ kraw \in {Some("key" :> BDoc(rep, e)) :
                          rep \in DocReps, e \in RawKeyElems(KFields, MaxKeys) \ {<<>>}}
                      \cup UNION {{Some(("key" :> BDoc(rep, e)) @@ w) :
                                      e \in RawTextKeyElems, w \in RawWeights(rep)} :
                                  rep \in DocReps}

\* CreateIndex up to CreateOne, keys only, and the listing entry that results
\* A key list of the JSON generation passed its schema's OneOf validator.
CreateOneKeys ==
    /\ kpc = "declared"
    /\ \E by \in {"toBson"} \cup
                  (IF ValidateKeyTypesJ(Val(kdeclared)) = <<>> THEN {"toBsonJ"} ELSE {}) :
          ksent' = Some([by |-> by,
                         keys |-> IF by = "toBson" THEN toBson(Val(kdeclared))
                                  ELSE toBsonJ(Val(kdeclared))])
    /\ \E rep \in DocReps :
          LET sent == Val(ksent').keys
          IN  kraw' = Some(("key" :> BDoc(rep, StoredKeyElems(sent, FALSE)))
                           @@ (IF TextFields(sent) = {} THEN EmptyMap
                               ELSE "weights" :> BDoc(rep, StoredWeights(sent, EmptyMap))))
    /\ kpc' = "stored"
    /\ UNCHANGED <<kdeclared, kdecoded, vvars, lvars>>

GetIndexKeys ==
    /\ kpc = "stored"
    /\ kdecoded' \in DecodeKeys(Val(kraw))
    /\ kpc' = "decoded"
    /\ UNCHANGED <<kdeclared, ksent, kraw, vvars, lvars>>

convertBsonToIndexKeys ==
    /\ kpc = "stored"
    /\ kdecoded' = convertKeys(Val(kraw))
    /\ kpc' = "converted"
    /\ UNCHANGED <<kdeclared, ksent, kraw, vvars, lvars>>

NextKeys == CreateOneKeys \/ GetIndexKeys \/ convertBsonToIndexKeys

SpecKeys == InitKeys /\ [][NextKeys]_vars

----------------------------------------------------------------------------
(* Resource model and client types, typed generation *)

\* int32(x) of a Go int64: the identity on -2^31 .. 2^31 - 1, the range that
\* holds every integer of this model
Int32(n) == n

\* IndexResourceModel with only identity and keys set
IndexResourceModel(database, collection, name, keys) ==
    [database |-> database, collection |-> collection, name |-> name,
     keys |-> keys, collation |-> Null, wildcard_projection |-> Null,
     partial_filter_expression |-> Null, unique |-> Null, sparse |-> Null,
     hidden |-> Null, expire_after_seconds |-> Null,
     sphere_index_version |-> Null, version |-> Null, bits |-> Null,
     min |-> Null, max |-> Null, weights |-> Null, default_language |-> Null,
     language_override |-> Null, text_index_version |-> Null]

\* CollationModel with only the locale set
CollationModel(locale) ==
    [locale |-> Some(locale), case_level |-> Null, case_first |-> Null,
     strength |-> Null, numeric_ordering |-> Null, alternate |-> Null,
     max_variable |-> Null, backwards |-> Null]

Index(name, database, collection, keys, opts) ==
    [Name |-> name, Database |-> database, Collection |-> collection,
     Keys |-> keys, Options |-> opts]

GetIndexOptions(name, database, collection) ==
    [Name |-> name, Database |-> database, Collection |-> collection]

\* the error value GetIndex returns when no entry matches
NotFoundError(name, t) == [kind |-> "NotFoundError", name |-> name, t |-> t]
\* an error the driver returns from a database call
DriverError(call) == [kind |-> "driver", call |-> call]
NoError == [kind |-> "nil"]
\* not a return value: the run-time panic of a failed type assertion
Panic == [kind |-> "panic"]

toMongoCollation(c) ==
    [Locale |-> Val(c.locale),
     CaseLevel |-> IF IsNull(c.case_level) THEN FALSE ELSE Val(c.case_level),
     CaseFirst |-> IF IsNull(c.case_first) THEN "" ELSE Val(c.case_first),
     Strength |-> IF IsNull(c.strength) THEN 0 ELSE Val(c.strength),
     NumericOrdering |-> IF IsNull(c.numeric_ordering) THEN FALSE ELSE Val(c.numeric_ordering),
     Alternate |-> IF IsNull(c.alternate) THEN "" ELSE Val(c.alternate),
     MaxVariable |-> IF IsNull(c.max_variable) THEN "" ELSE Val(c.max_variable),
     Backwards |-> IF IsNull(c.backwards) THEN FALSE ELSE Val(c.backwards)]

\* strconv.ParseInt(v, 10, 64) and strconv.ParseFloat(v, 64), for decimal
\* literals: an optional sign, digits, and for a float a point and digits
IsDigits(s) ==
    Len(s) > 0 /\ \A i \in 1..Len(s) : Contains("0123456789", SubSeq(s, i, i))
Signed(s) == Len(s) > 0 /\ SubSeq(s, 1, 1) \in {"+", "-"}
Unsigned(s) == IF Signed(s) THEN SubSeq(s, 2, Len(s)) ELSE s
DigitValue(c) == CHOOSE d \in 0..9 : Digit(d) = c
RECURSIVE Atoi(_)
Atoi(s) ==
    IF Len(s) = 0 THEN 0
    ELSE Atoi(SubSeq(s, 1, Len(s) - 1)) * 10 + DigitValue(SubSeq(s, Len(s), Len(s)))
RECURSIVE TrimZeros(_)
TrimZeros(s) ==
    IF Len(s) > 0 /\ SubSeq(s, Len(s), Len(s)) = "0"
    THEN TrimZeros(SubSeq(s, 1, Len(s) - 1)) ELSE s
ParseIntOK(s) == IsDigits(Unsigned(s))
ParseInt(s) ==
    IF Signed(s) /\ SubSeq(s, 1, 1) = "-" THEN 0 - Atoi(Unsigned(s)) ELSE Atoi(Unsigned(s))
ParseFloatOK(s) ==
    LET body == Unsigned(s)
        dot == IndexOf(body, ".")
    IN  \/ IsDigits(body)
        \/ /\ dot # 0
           /\ Len(body) > 1
           /\ \A i \in 1..Len(body) : i # dot => Contains("0123456789", SubSeq(body, i, i))
ParseFloat(s) ==
    LET body == Unsigned(s)
        dot == IndexOf(body, ".")
        neg == Signed(s) /\ SubSeq(s, 1, 1) = "-"
        whole == IF dot = 0 THEN body ELSE SubSeq(body, 1, dot - 1)
        frac == IF dot = 0 THEN "" ELSE TrimZeros(SubSeq(body, dot + 1, Len(body)))
    IN  IF frac = ""
        THEN BDbl(IF neg THEN 0 - Atoi(whole) ELSE Atoi(whole))
        ELSE BDblLit((IF neg THEN "-" ELSE "") \o NatToString(Atoi(whole)) \o "." \o frac)

stringMapToMongoTypes(strMap) ==
    [k \in DOMAIN strMap |->
        LET v == strMap[k]
        IN  IF v = "true" \/ v = "false" THEN BBool(v = "true")
            ELSE IF ParseIntOK(v) THEN B64(ParseInt(v))
            ELSE IF ParseFloatOK(v) THEN ParseFloat(v)
            ELSE BStr(v)]

\* Create, "Create the index model" and "Set options based on plan values"
PlanToIndex(plan) ==
    Index(plan.name, plan.database, plan.collection, plan.keys,
        [Unique |-> IF IsNull(plan.unique) THEN FALSE ELSE Val(plan.unique),
         Sparse |-> IF IsNull(plan.sparse) THEN FALSE ELSE Val(plan.sparse),
         Hidden |-> IF IsNull(plan.hidden) THEN FALSE ELSE Val(plan.hidden),
         ExpireAfterSeconds |->
             IF IsNull(plan.expire_after_seconds) THEN 0
             ELSE Int32(Val(plan.expire_after_seconds)),
         SphereVersion |->
             IF IsNull(plan.sphere_index_version) THEN 0
             ELSE Int32(Val(plan.sphere_index_version)),
         Version |-> 0,
         Bits |-> IF IsNull(plan.bits) THEN 0 ELSE Int32(Val(plan.bits)),
         Min |-> IF IsNull(plan.min) THEN 0 ELSE Val(plan.min),
         Max |-> IF IsNull(plan.max) THEN 0 ELSE Val(plan.max),
         Weights |->
             IF IsNull(plan.weights) THEN Null
             ELSE Some([k \in DOMAIN Val(plan.weights) |-> Int32(Val(plan.weights)[k])]),
         DefaultLanguage |->
             IF IsNull(plan.default_language) THEN "" ELSE Val(plan.default_language),
         LanguageOverride |->
             IF IsNull(plan.language_override) THEN "" ELSE Val(plan.language_override),
         TextIndexVersion |->
             IF IsNull(plan.text_index_version) THEN 0
             ELSE Int32(Val(plan.text_index_version)),
         Collation |->
             IF IsNull(plan.collation) THEN Null
             ELSE Some(toMongoCollation(Val(plan.collation))),
         WildcardProjection |->
             IF IsNull(plan.wildcard_projection) THEN Null
             ELSE Some([k \in DOMAIN Val(plan.wildcard_projection) |->
                           Int32(Val(plan.wildcard_projection)[k])]),
         PartialFilterExpression |->
             IF IsNull(plan.partial_filter_expression) THEN Null
             ELSE Some(stringMapToMongoTypes(Val(plan.partial_filter_expression)))])

----------------------------------------------------------------------------
(* The createIndexes command and the database's listing *)

\* a Go map marshalled as a document; the element order is the order of a
\* range over the map, which no reader of the listing observes (a nested
\* document is decoded into a map again)
RECURSIVE KeySeq(_)
KeySeq(S) ==
    IF S = {} THEN <<>>
    ELSE LET k == CHOOSE x \in S : TRUE IN <<k>> \o KeySeq(S \ {k})

\* the Go type the driver decodes a nested document of a listing entry into,
\* when the entry itself is decoded into a bson.M
ListRep == "M"

MapDoc(m) ==
    LET ks == KeySeq(DOMAIN m)
    IN  BDoc(ListRep, [i \in 1..Len(ks) |-> <<ks[i], m[ks[i]]>>])
Int32Map(m) == [k \in DOMAIN m |-> B32(m[k])]

\* options.Collation marshalled with omitempty: zero-valued fields are left out
CollationElems(c) ==
    (IF c.Locale # "" THEN <<<<"locale", BStr(c.Locale)>>>> ELSE <<>>)
    \o (IF c.CaseLevel THEN <<<<"caseLevel", BBool(TRUE)>>>> ELSE <<>>)
    \o (IF c.CaseFirst # "" THEN <<<<"caseFirst", BStr(c.CaseFirst)>>>> ELSE <<>>)
    \o (IF c.Strength # 0 THEN <<<<"strength", B32(c.Strength)>>>> ELSE <<>>)
    \o (IF c.NumericOrdering THEN <<<<"numericOrdering", BBool(TRUE)>>>> ELSE <<>>)
    \o (IF c.Alternate # "" THEN <<<<"alternate", BStr(c.Alternate)>>>> ELSE <<>>)
    \o (IF c.MaxVariable # "" THEN <<<<"maxVariable", BStr(c.MaxVariable)>>>> ELSE <<>>)
    \o (IF c.Backwards THEN <<<<"backwards", BBool(TRUE)>>>> ELSE <<>>)

HasKeyType(keys, type) == \E i \in 1..Len(keys) : keys[i].Type = type

DefaultIndexVersion == 2

\* CreateIndex up to the CreateOne call: the index model sent to the
\* database, as the key elements and the options that were set
CreateIndexModel(index) ==
    LET keys == Val(index.Keys)
        o == index.Options
        isWildcardIndex == HasKeyType(keys, "wildcard")
        is2dIndex == HasKeyType(keys, "2d")
        isTextIndex == HasKeyType(keys, "text")
        Opt(cond, name, value) == IF cond THEN name :> value ELSE EmptyMap
    IN  [Keys |-> toBson(keys),
         Options |->
             ("name" :> BStr(index.Name)) @@ ("v" :> B32(DefaultIndexVersion))
             @@ Opt(o.Unique, "unique", BBool(o.Unique))
             @@ Opt(o.Sparse, "sparse", BBool(o.Sparse))
             @@ Opt(o.Hidden, "hidden", BBool(o.Hidden))
             @@ Opt(is2dIndex /\ o.Bits > 0, "bits", B32(o.Bits))
             @@ Opt(is2dIndex /\ o.Min # 0, "min", BDbl(o.Min))
             @@ Opt(is2dIndex /\ o.Max # 0, "max", BDbl(o.Max))
             @@ Opt(isTextIndex /\ ~IsNull(o.Weights), "weights",
                    IF IsNull(o.Weights) THEN Null ELSE MapDoc(Int32Map(Val(o.Weights))))
             @@ Opt(isTextIndex /\ o.DefaultLanguage # "", "default_language",
                    BStr(o.DefaultLanguage))
             @@ Opt(isTextIndex /\ o.LanguageOverride # "", "language_override",
                    BStr(o.LanguageOverride))
             @@ Opt(isTextIndex /\ o.TextIndexVersion > 0, "textIndexVersion",
                    B32(o.TextIndexVersion))
             @@ Opt(o.ExpireAfterSeconds > 0 /\ ~isWildcardIndex, "expireAfterSeconds",
                    B32(o.ExpireAfterSeconds))
             @@ Opt(~IsNull(o.Collation), "collation",
                    IF IsNull(o.Collation) THEN Null
                    ELSE BDoc(ListRep, CollationElems(Val(o.Collation))))
             @@ Opt(~IsNull(o.PartialFilterExpression)
                        /\ DOMAIN Val(o.PartialFilterExpression) # {},
                    "partialFilterExpression",
                    IF IsNull(o.PartialFilterExpression) THEN Null
                    ELSE MapDoc(Val(o.PartialFilterExpression)))
             @@ Opt(isWildcardIndex /\ ~IsNull(o.WildcardProjection)
                        /\ DOMAIN Val(o.WildcardProjection) # {},
                    "wildcardProjection",
                    IF IsNull(o.WildcardProjection) THEN Null
                    ELSE MapDoc(Int32Map(Val(o.WildcardProjection))))]

\* CreateIndex after CreateOne succeeded: the caller's Index, which it holds
\* by pointer, gets the name the driver returned and the version sent
CreateIndexReturn(index, indexName) ==
    [index EXCEPT !.Name = indexName, !.Options.Version = DefaultIndexVersion]

\* The collation document the database stores: the fields sent, the others
\* at the database's defaults
StoredCollation(sent) ==
    LET Field(name, default) ==
            <<name, IF DocHas(sent, name) THEN DocGet(sent, name) ELSE default>>
    IN  BDoc(ListRep,
             <<Field("locale", BStr("")), Field("caseLevel", BBool(FALSE)),
               Field("caseFirst", BStr("off")), Field("strength", B32(3)),
               Field("numericOrdering", BBool(FALSE)),
               Field("alternate", BStr("non-ignorable")),
               Field("maxVariable", BStr("punct")),
               Field("normalization", BBool(FALSE)),
               Field("backwards", BBool(FALSE)), <<"version", BStr("57.1")>>>>)

WeightsOf(options) ==
    IF "weights" \in DOMAIN options /\ options["weights"].t = "doc"
    THEN [k \in {options["weights"].e[i][1] : i \in 1..Len(options["weights"].e)} |->
             DocGet(options["weights"], k).n]
    ELSE EmptyMap

\* The listing entry the database holds for an index model it accepted:
\* the options as sent, the key document in stored form, and the defaults the
\* database adds for text, 2dsphere, collation and the index version
StoredEntry(model) ==
    LET isText == TextFields(model.Keys) # {}
        isSphere == \E i \in 1..Len(model.Keys) : model.Keys[i][2] = BStr("2dsphere")
        o == model.Options
    IN  ("key" :> BDoc(ListRep, StoredKeyElems(model.Keys, FALSE)))
        @@ (IF isText
            THEN ("weights" :> BDoc(ListRep, StoredWeights(model.Keys, WeightsOf(o))))
                 @@ (IF "default_language" \in DOMAIN o THEN EmptyMap
                     ELSE "default_language" :> BStr("english"))
                 @@ (IF "language_override" \in DOMAIN o THEN EmptyMap
                     ELSE "language_override" :> BStr("language"))
                 @@ (IF "textIndexVersion" \in DOMAIN o THEN EmptyMap
                     ELSE "textIndexVersion" :> B32(3))
            ELSE EmptyMap)
        @@ (IF isSphere /\ "2dsphereIndexVersion" \notin DOMAIN o
            THEN "2dsphereIndexVersion" :> B32(3) ELSE EmptyMap)
        @@ (IF "collation" \in DOMAIN o
            THEN "collation" :> StoredCollation(o["collation"]) ELSE EmptyMap)
        @@ (IF "v" \in DOMAIN o THEN EmptyMap ELSE "v" :> B32(DefaultIndexVersion))
        @@ o

\* position of the first entry of a listing whose name equals the requested
\* name (rawIndex["name"] == options.Name), 0 when there is none
Match(rawIndexes, name) ==
    LET hits == {i \in 1..Len(rawIndexes) :
                    /\ "name" \in DOMAIN rawIndexes[i]
                    /\ rawIndexes[i]["name"] = BStr(name)}
    IN  IF hits = {} THEN 0 ELSE CHOOSE i \in hits : \A j \in hits : i <= j

----------------------------------------------------------------------------
(* Client, typed generation (src/internal/mongodb/index.go) *)

\* the result of Indexes().List followed by cursor.All
Listed(rawIndexes) == [err |-> NoError, rawIndexes |-> rawIndexes]
ListFailed == [err |-> DriverError("List"), rawIndexes |-> <<>>]

Returned(index, err) == [index |-> index, err |-> err]

\* the fields of a nested document whose values have a given type, as a Go map
FieldsOfType(d, type, field) ==
    [k \in {d.e[i][1] : i \in {j \in 1..Len(d.e) : d.e[j][2].t = type}} |->
        DocGet(d, k)[field]]

\* GetIndex, collation: every field is read with an unchecked type assertion,
\* which panics when the field is missing or of another type
CollationAsserts ==
    [locale |-> "string", strength |-> "int32", caseLevel |-> "bool",
     alternate |-> "string", backwards |-> "bool", caseFirst |-> "string",
     maxVariable |-> "string", numericOrdering |-> "bool"]

CollationPanics(rawIndex) ==
    /\ IsDocOf(rawIndex, "collation", "M")
    /\ \E f \in DOMAIN CollationAsserts :
          ~(DocHas(rawIndex["collation"], f)
            /\ DocGet(rawIndex["collation"], f).t = CollationAsserts[f])

\* GetIndex, from "Process text index specific options" to "Process common
\* index options": the options read from the matching entry
DecodeOptions(rawIndex) ==
    LET Scalar(name, type, field, zero) ==
            IF HasOfType(rawIndex, name, type) THEN rawIndex[name][field] ELSE zero
    IN  [TextIndexVersion |-> Scalar("textIndexVersion", "int32", "n", 0),
         DefaultLanguage |-> Scalar("default_language", "string", "s", ""),
         LanguageOverride |-> Scalar("language_override", "string", "s", ""),
         Weights |->
             IF IsDocOf(rawIndex, "weights", "M") /\ Len(rawIndex["weights"].e) > 0
             THEN Some(FieldsOfType(rawIndex["weights"], "int32", "n"))
             ELSE Null,
         Bits |-> Scalar("bits", "int32", "n", 0),
         Min |-> IF HasOfType(rawIndex, "min", "float64") /\ "n" \in DOMAIN rawIndex["min"]
                 THEN rawIndex["min"].n ELSE 0,
         Max |-> IF HasOfType(rawIndex, "max", "float64") /\ "n" \in DOMAIN rawIndex["max"]
                 THEN rawIndex["max"].n ELSE 0,
         WildcardProjection |->
             IF IsDocOf(rawIndex, "wildcardProjection", "M")
             THEN Some(FieldsOfType(rawIndex["wildcardProjection"], "int32", "n"))
             ELSE Null,
         Collation |->
             IF IsDocOf(rawIndex, "collation", "M") /\ ~CollationPanics(rawIndex)
             THEN LET c == rawIndex["collation"]
                  IN  Some([Locale |-> DocGet(c, "locale").s,
                            Strength |-> DocGet(c, "strength").n,
                            CaseLevel |-> DocGet(c, "caseLevel").b,
                            Alternate |-> DocGet(c, "alternate").s,
                            Backwards |-> DocGet(c, "backwards").b,
                            CaseFirst |-> DocGet(c, "caseFirst").s,
                            MaxVariable |-> DocGet(c, "maxVariable").s,
                            NumericOrdering |-> DocGet(c, "numericOrdering").b])
             ELSE Null,
         PartialFilterExpression |->
             IF IsDocOf(rawIndex, "partialFilterExpression", "M")
             THEN LET pfe == rawIndex["partialFilterExpression"]
                  IN  Some([k \in {pfe.e[i][1] : i \in 1..Len(pfe.e)} |->
                               BStr(Sprintv(DocGet(pfe, k)))])
             ELSE Null,
         Unique |-> Scalar("unique", "bool", "b", FALSE),
         Sparse |-> Scalar("sparse", "bool", "b", FALSE),
         Version |-> Scalar("v", "int32", "n", 0),
         Hidden |-> FALSE,
         ExpireAfterSeconds |-> 0,
         SphereVersion |-> 0]

\* A mutation of GetIndex that reports an entry under the name the listing
\* gives to its first entry
GetIndex_FirstEntry(list, options) ==
    IF list.err # NoError THEN {Returned(Null, list.err)}
    ELSE IF Len(list.rawIndexes) = 0
         THEN {Returned(Null, NotFoundError(options.Name, "index"))}
         ELSE {Returned(Some(Index(list.rawIndexes[1]["name"].s, options.Database,
                                   options.Collection, keys,
                                   DecodeOptions(list.rawIndexes[1]))), NoError) :
                  keys \in DecodeKeys(list.rawIndexes[1])}

\* GetIndex: the values it can return for the outcome of List; a set because
\* the keys are collected by ranging over a Go map
GetIndex(list, options) ==
    IF list.err # NoError THEN {Returned(Null, list.err)}
    ELSE LET i == Match(list.rawIndexes, options.Name)
         IN  IF i = 0
             THEN {Returned(Null, NotFoundError(options.Name, "index"))}
             ELSE IF CollationPanics(list.rawIndexes[i])
             THEN {Returned(Null, Panic)}
             ELSE {Returned(Some(Index(options.Name, options.Database,
                                       options.Collection, keys,
                                       DecodeOptions(list.rawIndexes[i]))), NoError) :
                      keys \in DecodeKeys(list.rawIndexes[i])}

----------------------------------------------------------------------------
(* Client, JSON generation (src/internal/mongodb/types_index.go) *)

\* IndexResourceModel of the JSON generation with only identity and keys set
IndexResourceModelJ(database, collection, name, keys) ==
    [database |-> database, collection |-> collection, name |-> name,
     keys |-> keys, unique |-> Null, expire_after_seconds |-> Null,
     sparse |-> Null, hidden |-> Null, partial_filter_expression |-> Null,
     sphere_index_version |-> Null, wildcard_projection |-> Null,
     collation |-> Null]

BArr(a) == [t |-> "array", a |-> a]

\* a JSON value held in a Go interface{} (json.Unmarshal), as the BSON value
\* the driver marshals it into: a JSON number is a float64
RECURSIVE JsonToBson(_)
JsonToBson(j) ==
    CASE j.t = "obj" ->
             LET ks == KeySeq(DOMAIN j.m)
             IN  BDoc(ListRep, [i \in 1..Len(ks) |-> <<ks[i], JsonToBson(j.m[ks[i]])>>])
      [] j.t = "arr" -> BArr([i \in 1..Len(j.a) |-> JsonToBson(j.a[i])])
      [] j.t = "str" -> BStr(j.s)
      [] j.t = "num" -> BDbl(j.n)
      [] OTHER -> BBool(j.b)

\* json.Marshal of a value decoded from the listing
RECURSIVE BsonToJson(_)
BsonToJson(v) ==
    CASE v.t = "doc" ->
             JObj([k \in {v.e[i][1] : i \in 1..Len(v.e)} |-> BsonToJson(DocGet(v, k))])
      [] v.t = "array" -> JArr([i \in 1..Len(v.a) |-> BsonToJson(v.a[i])])
      [] v.t = "string" -> JStr(v.s)
      [] v.t = "bool" -> JBool(v.b)
      [] OTHER -> JNum(v.n)

\* Create of the JSON generation, from "index := &mongodb.Index{" to the
\* CreateIndex call.  json.Unmarshal into a map leaves the map nil unless the
\* text is a JSON object; the nil map is still stored in the interface.
PlanToIndexJ(plan) ==
    LET AsMap(text) == IF Val(text).t = "obj" THEN Val(text) ELSE JObj(EmptyMap)
    IN  Index(plan.name, plan.database, plan.collection, plan.keys,
            [Unique |-> plan.unique,
             ExpireAfterSeconds |->
                 IF IsNull(plan.expire_after_seconds) THEN Null
                 ELSE Some(Int32(Val(plan.expire_after_seconds))),
             Sparse |-> plan.sparse,
             Hidden |-> plan.hidden,
             SphereIndexVersion |->
                 IF IsNull(plan.sphere_index_version) THEN Null
                 ELSE Some(Int32(Val(plan.sphere_index_version))),
             Collation |->
                 IF IsNull(plan.collation) THEN Null ELSE Some(AsMap(plan.collation)),
             WildcardProjection |->
                 IF IsNull(plan.wildcard_projection) THEN Null
                 ELSE Some(AsMap(plan.wildcard_projection)),
             PartialFilterExpression |-> Null,
             Weights |-> Null])

\* Create of the JSON generation, "state := IndexResourceModel{": the state
\* it stores when CreateIndex succeeds
PlanToStateJ(plan) ==
    [IndexResourceModelJ(plan.database, plan.collection, plan.name, plan.keys)
        EXCEPT !.partial_filter_expression = plan.partial_filter_expression,
               !.unique = plan.unique,
               !.expire_after_seconds = plan.expire_after_seconds,
               !.sparse = plan.sparse,
               !.hidden = plan.hidden,
               !.collation = plan.collation,
               !.wildcard_projection = plan.wildcard_projection]

\* CreateIndex of the JSON generation up to the CreateOne call
CreateIndexModelJ(index) ==
    LET o == index.Options
        Opt(cond, name, value) == IF cond THEN name :> value ELSE EmptyMap
        Field(m, name, type, make(_), field) ==
            IF name \in DOMAIN m /\ m[name].t = type
            THEN <<<<name, make(m[name][field])>>>> ELSE <<>>
    IN  [Keys |-> toBsonJ(Val(index.Keys)),
         Options |->
             ("name" :> BStr(index.Name))
             @@ Opt(~IsNull(o.Unique), "unique",
                    IF IsNull(o.Unique) THEN Null ELSE BBool(Val(o.Unique)))
             @@ Opt(~IsNull(o.Sparse), "sparse",
                    IF IsNull(o.Sparse) THEN Null ELSE BBool(Val(o.Sparse)))
             @@ Opt(~IsNull(o.ExpireAfterSeconds), "expireAfterSeconds",
                    IF IsNull(o.ExpireAfterSeconds) THEN Null
                    ELSE B32(Val(o.ExpireAfterSeconds)))
             @@ Opt(~IsNull(o.Hidden), "hidden",
                    IF IsNull(o.Hidden) THEN Null ELSE BBool(Val(o.Hidden)))
             @@ Opt(~IsNull(o.PartialFilterExpression), "partialFilterExpression",
                    IF IsNull(o.PartialFilterExpression) THEN Null
                    ELSE JsonToBson(Val(o.PartialFilterExpression)))
             @@ Opt(~IsNull(o.SphereIndexVersion), "v",
                    IF IsNull(o.SphereIndexVersion) THEN Null
                    ELSE B32(Val(o.SphereIndexVersion)))
             @@ Opt(~IsNull(o.WildcardProjection), "wildcardProjection",
                    IF IsNull(o.WildcardProjection) THEN Null
                    ELSE JsonToBson(Val(o.WildcardProjection)))
             @@ Opt(~IsNull(o.Collation), "collation",
                    IF IsNull(o.Collation) THEN Null
                    ELSE LET m == Val(o.Collation).m
                         IN  BDoc(ListRep,
                                Field(m, "locale", "str", BStr, "s")
                                \o (IF "caseLevel" \in DOMAIN m /\ m["caseLevel"] = JBool(TRUE)
                                    THEN <<<<"caseLevel", BBool(TRUE)>>>> ELSE <<>>)
                                \o Field(m, "caseFirst", "str", BStr, "s")
                                \o Field(m, "strength", "num", B32, "n")
                                \o (IF "numericOrdering" \in DOMAIN m
                                       /\ m["numericOrdering"] = JBool(TRUE)
                                    THEN <<<<"numericOrdering", BBool(TRUE)>>>> ELSE <<>>)
                                \o Field(m, "alternate", "str", BStr, "s")
                                \o Field(m, "maxVariable", "str", BStr, "s")
                                \o (IF "backwards" \in DOMAIN m /\ m["backwards"] = JBool(TRUE)
                                    THEN <<<<"backwards", BBool(TRUE)>>>> ELSE <<>>)))]

\* CreateIndex of the JSON generation after CreateOne succeeded
CreateIndexReturnJ(index, indexName) == [index EXCEPT !.Name = indexName]

\* convertBsonToIndex, "Convert options"
convertOptions(bsonIndex) ==
    [Unique |-> IF HasOfType(bsonIndex, "unique", "bool")
                THEN Some(bsonIndex["unique"].b) ELSE Null,
     Sparse |-> IF HasOfType(bsonIndex, "sparse", "bool")
                THEN Some(bsonIndex["sparse"].b) ELSE Null,
     Hidden |-> IF HasOfType(bsonIndex, "hidden", "bool")
                THEN Some(bsonIndex["hidden"].b) ELSE Null,
     ExpireAfterSeconds |->
         IF HasOfType(bsonIndex, "expireAfterSeconds", "int32")
         THEN Some(bsonIndex["expireAfterSeconds"].n) ELSE Null,
     PartialFilterExpression |->
         IF "partialFilterExpression" \in DOMAIN bsonIndex
         THEN Some(bsonIndex["partialFilterExpression"]) ELSE Null,
     Weights |-> IF "weights" \in DOMAIN bsonIndex THEN Some(bsonIndex["weights"]) ELSE Null,
     \* a decoded collation is a document, never a *options.Collation
     Collation |-> Null,
     SphereIndexVersion |-> Null,
     WildcardProjection |-> Null]

convertBsonToIndex(bsonIndex, database, collection) ==
    Returned(Some(Index(bsonIndex["name"].s, database, collection,
                        convertKeys(bsonIndex), convertOptions(bsonIndex))), NoError)

GetIndexJ(list, options) ==
    IF list.err # NoError THEN Returned(Null, list.err)
    ELSE LET i == Match(list.rawIndexes, options.Name)
         IN  IF i = 0
             THEN Returned(Null, NotFoundError(options.Name, "index"))
             ELSE convertBsonToIndex(list.rawIndexes[i], options.Database,
                                     options.Collection)

----------------------------------------------------------------------------
(* Resource handlers as functions of the request and of what the client    *)
(* returned: the response's state (Null when removed) and diagnostics      *)

Response(newState, newDiags) == [state |-> newState, diags |-> newDiags]

ErrCreate == "Error creating MongoDB index"
ErrRead == "Error reading MongoDB index"
ErrDelete == "Error deleting MongoDB index"
ErrImport == "Invalid import ID"
ImportDetail == "Import ID should be in the format: database.collection.index_name"

\* Read of the typed generation, from "Update keys" to resp.State.Set
ReadState(state, index) ==
    LET o == index.Options
    IN  [state EXCEPT
            !.keys = IF IsNull(index.Keys) THEN @ ELSE index.Keys,
            !.partial_filter_expression =
                IF IsNull(o.PartialFilterExpression) THEN Null
                ELSE Some([k \in DOMAIN Val(o.PartialFilterExpression) |->
                              Sprintv(Val(o.PartialFilterExpression)[k])]),
            !.collation =
                IF IsNull(o.Collation) THEN Null
                ELSE LET c == Val(o.Collation)
                     IN  Some([locale |-> Some(c.Locale),
                               case_level |-> Some(c.CaseLevel),
                               case_first |-> Some(c.CaseFirst),
                               strength |-> Some(c.Strength),
                               numeric_ordering |-> Some(c.NumericOrdering),
                               alternate |-> Some(c.Alternate),
                               max_variable |-> Some(c.MaxVariable),
                               backwards |-> Some(c.Backwards)]),
            !.wildcard_projection = o.WildcardProjection,
            !.bits = IF o.Bits > 0 THEN Some(o.Bits) ELSE Null,
            !.min = IF o.Min # 0 THEN Some(o.Min) ELSE Null,
            !.max = IF o.Max # 0 THEN Some(o.Max) ELSE Null,
            !.weights = IF IsNull(o.Weights) THEN @ ELSE o.Weights,
            !.default_language =
                IF o.DefaultLanguage # "" THEN Some(o.DefaultLanguage) ELSE Null,
            !.language_override =
                IF o.LanguageOverride # "" THEN Some(o.LanguageOverride) ELSE Null,
            !.text_index_version =
                IF o.TextIndexVersion > 0 THEN Some(o.TextIndexVersion) ELSE Null]

\* A mutation of Read that reports NotFoundError like any other error
Read_NotFoundIsError(state, got) ==
    IF got.err # NoError
    THEN Response(Some(state), <<Diag(ErrRead, got.err.kind, state.name)>>)
    ELSE Response(Some(ReadState(state, Val(got.index))), <<>>)

\* Read of the typed generation, given what GetIndex returned
Read(state, got) ==
    IF got.err # NoError
    THEN IF got.err.kind = "NotFoundError"
         THEN Response(Null, <<>>)
         ELSE Response(Some(state), <<Diag(ErrRead, got.err.kind, state.name)>>)
    ELSE Response(Some(ReadState(state, Val(got.index))), <<>>)

\* Read of the JSON generation, from "var currentKeys" to resp.State.Set
ReadStateJ(state, index) ==
    LET o == index.Options
    IN  [state EXCEPT
            !.keys = index.Keys,
            !.unique = IF IsNull(o.Unique) THEN @ ELSE o.Unique,
            !.partial_filter_expression =
                IF IsNull(o.PartialFilterExpression) THEN Null
                ELSE Some(BsonToJson(Val(o.PartialFilterExpression))),
            !.collation = IF IsNull(o.Collation) THEN Null ELSE o.Collation,
            !.expire_after_seconds =
                IF IsNull(o.ExpireAfterSeconds) THEN @ ELSE o.ExpireAfterSeconds,
            !.sparse = IF IsNull(o.Sparse) THEN @ ELSE o.Sparse,
            !.sphere_index_version = o.SphereIndexVersion,
            !.wildcard_projection =
                IF IsNull(o.WildcardProjection) THEN Null
                ELSE Some(BsonToJson(Val(o.WildcardProjection))),
            !.hidden = IF IsNull(o.Hidden) THEN @ ELSE o.Hidden]

\* Read of the JSON generation, given what GetIndex returned
ReadJ(state, got) ==
    IF got.err # NoError
    THEN IF got.err.kind = "NotFoundError"
         THEN Response(Null, <<>>)
         ELSE Response(Some(state), <<Diag(ErrRead, got.err.kind, state.name)>>)
    ELSE IF IsNull(Val(got.index).Keys)
         THEN Response(Some(state), <<>>)
         ELSE Response(Some(ReadStateJ(state, Val(got.index))), <<>>)

\* Create after CreateIndex returned: the plan, stamped with the default
\* index version, becomes the state unless CreateIndex failed
CreateResponse(plan, err) ==
    IF err # NoError
    THEN Response(Null, <<Diag(ErrCreate, err.kind, plan.name)>>)
    ELSE Response(Some([plan EXCEPT !.version = Some(DefaultIndexVersion)]), <<>>)

CreateResponseJ(plan, err) ==
    IF err # NoError
    THEN Response(Null, <<Diag(ErrCreate, err.kind, plan.name)>>)
    ELSE Response(Some(PlanToStateJ(plan)), <<>>)

\* Delete after DeleteIndex returned; the framework removes the resource
\* from state when the response carries no error
DeleteResponse(state, err) ==
    IF err # NoError
    THEN Response(Some(state), <<Diag(ErrDelete, err.kind, state.name)>>)
    ELSE Response(Null, <<>>)

\* a mutation of ImportState that refuses only an ID of fewer than three
\* parts
ImportStateResponse_AtLeastThree(id, empty) ==
    LET idParts == Split(id, ".")
    IN  IF Len(idParts) < 3
        THEN Response(Null, <<Diag(ErrImport, ImportDetail, id)>>)
        ELSE Response(Some([empty EXCEPT !.database = idParts[1],
                                         !.collection = idParts[2],
                                         !.name = idParts[3]]), <<>>)

\* ImportState: the identity attributes are set in the empty state the
\* framework hands over, all others stay null
ImportStateResponse(id, empty) ==
    LET idParts == Split(id, ".")
    IN  IF Len(idParts) # 3
        THEN Response(Null, <<Diag(ErrImport, ImportDetail, id)>>)
        ELSE Response(Some([empty EXCEPT !.database = idParts[1],
                                         !.collection = idParts[2],
                                         !.name = idParts[3]]), <<>>)

----------------------------------------------------------------------------
(* The lifecycle of one index resource against one database *)

Names == {"idx_a", "idx_b"}
TheDatabase == "app"
TheCollection == "users"

\* the index every collection has
IdIndex == ("name" :> BStr("_id_")) @@ ("v" :> B32(2))
           @@ ("key" :> BDoc(ListRep, <<<<"_id", B32(1)>>>>))

BasePlan(keys) == IndexResourceModel(TheDatabase, TheCollection, "idx_a", Some(keys))

\* the plans handed to Create
Plans ==
    {[BasePlan(<<IndexKey("a", "1")>>) EXCEPT !.unique = Some(TRUE)],
     [BasePlan(<<IndexKey("createdAt", "1")>>) EXCEPT
         !.expire_after_seconds = Some(60), !.sparse = Some(FALSE)],
     [BasePlan(<<IndexKey("$**", "wildcard")>>) EXCEPT
         !.wildcard_projection = Some("a" :> 1)],
     [BasePlan(<<IndexKey("title", "text")>>) EXCEPT
         !.weights = Some("title" :> 5), !.default_language = Some("en"),
         !.text_index_version = Some(3)],
     [BasePlan(<<IndexKey("loc", "2d")>>) EXCEPT
         !.bits = Some(26), !.min = Some(0 - 180), !.max = Some(180)],
     [BasePlan(<<IndexKey("a", "1"), IndexKey("b", "-1")>>) EXCEPT
         !.collation = Some(CollationModel("en")), !.hidden = Some(TRUE),
         !.partial_filter_expression = Some(("status" :> "active") @@ ("age" :> "18"))],
     [BasePlan(<<IndexKey("loc", "2dsphere")>>) EXCEPT
         !.sphere_index_version = Some(3), !.version = Some(1)],
     \* options declared explicitly as false or zero
     [BasePlan(<<IndexKey("a", "1")>>) EXCEPT
         !.unique = Some(FALSE), !.sparse = Some(FALSE), !.hidden = Some(FALSE)],
     [BasePlan(<<IndexKey("createdAt", "1")>>) EXCEPT !.expire_after_seconds = Some(0)],
     [BasePlan(<<IndexKey("loc", "2d")>>) EXCEPT !.min = Some(0), !.max = Some(0)],
     \* filters with a boolean, an integer, a float and a string leaf
     [BasePlan(<<IndexKey("a", "1")>>) EXCEPT
         !.partial_filter_expression =
             Some(("active" :> "true") @@ ("age" :> "18") @@ ("score" :> "1.5")
                  @@ ("status" :> "active"))],
     [BasePlan(<<IndexKey("a", "1")>>) EXCEPT
         !.partial_filter_expression = Some(("score" :> "2.0") @@ ("code" :> "007"))],
     \* options of other index kinds declared on a plain index
     [BasePlan(<<IndexKey("a", "1")>>) EXCEPT
         !.bits = Some(26), !.min = Some(0 - 180), !.max = Some(180),
         !.weights = Some("a" :> 5), !.default_language = Some("en"),
         !.language_override = Some("lang"), !.text_index_version = Some(3),
         !.wildcard_projection = Some("a" :> 1)],
     \* a key list with keys of two kinds and the options of both
     [BasePlan(<<IndexKey("title", "text"), IndexKey("loc", "2d")>>) EXCEPT
         !.weights = Some("title" :> 5), !.bits = Some(26)]}

BasePlanJ(keys) == IndexResourceModelJ(TheDatabase, TheCollection, "idx_a", Some(keys))

PlansJ ==
    {[BasePlanJ(<<IndexKey("a", "1")>>) EXCEPT !.unique = Some(TRUE)],
     [BasePlanJ(<<IndexKey("createdAt", "1")>>) EXCEPT
         !.expire_after_seconds = Some(60), !.sparse = Some(FALSE)],
     [BasePlanJ(<<IndexKey("a", "1"), IndexKey("b", "-1")>>) EXCEPT
         !.collation = Some(JObj(("locale" :> JStr("en")) @@ ("strength" :> JNum(2)))),
         !.hidden = Some(TRUE),
         !.partial_filter_expression = Some(JObj("status" :> JObj("$eq" :> JStr("x"))))],
     [BasePlanJ(<<IndexKey("loc", "2dsphere")>>) EXCEPT !.sphere_index_version = Some(2)],
     [BasePlanJ(<<IndexKey("$**", "1")>>) EXCEPT
         !.wildcard_projection = Some(JObj("a" :> JNum(1)))],
     [BasePlanJ(<<IndexKey("loc", "2dsphere")>>) EXCEPT !.sphere_index_version = Some(3)],
     \* options declared explicitly as false or zero
     [BasePlanJ(<<IndexKey("a", "1")>>) EXCEPT
         !.unique = Some(FALSE), !.sparse = Some(FALSE), !.hidden = Some(FALSE)],
     [BasePlanJ(<<IndexKey("createdAt", "1")>>) EXCEPT !.expire_after_seconds = Some(0)],
     \* a projection declared on an index without a wildcard key
     [BasePlanJ(<<IndexKey("a", "1")>>) EXCEPT
         !.wildcard_projection = Some(JObj("a" :> JNum(1)))]}

\* index models that other clients of the database send
ExternalModels ==
    {[Keys |-> <<<<"a", B32(1)>>>>,
      Options |-> ("name" :> BStr(n)) @@ ("v" :> B32(2))] : n \in Names}
    \cup {[Keys |-> <<<<"h", BStr("hashed")>>>>,
           Options |-> ("name" :> BStr(n)) @@ ("v" :> B32(2))
                       @@ ("expireAfterSeconds" :> B32(30))] : n \in Names}

ImportIDs == {"app.users.idx_a", "app..idx_a", "app.users", "app.users.idx.a", "idx_a"}

UpdateVersions == {1, 2}

\* the attributes of the typed generation's IndexResourceModel
Attributes == DOMAIN IndexResourceModel("", "", "", Null)

\* a mutation of the schema in which unique, sparse and hidden may change
\* in place
RequiresReplace_NotFlags == Attributes \ {"version", "unique", "sparse", "hidden"}

\* Schema: the attributes that carry a RequiresReplace plan modifier; only
\* version, which is optional and computed, has none
RequiresReplace == Attributes \ {"version"}

\* Create: the attributes of the plan that it puts into the Index it hands
\* to CreateIndex
SentAttributes ==
    {"name", "database", "collection", "keys", "unique", "sparse", "hidden",
     "expire_after_seconds", "sphere_index_version", "bits", "min", "max",
     "weights", "default_language", "language_override", "text_index_version",
     "collation", "wildcard_projection", "partial_filter_expression"}

\* the attributes in which a plan differs from the state
Changed(plan, prior) == {a \in Attributes : plan[a] # prior[a]}

\* the plans of an apply on an existing resource: a configuration of Plans
\* or the prior state, with the version declared
UpdatePlans(prior) ==
    {[p EXCEPT !.version = Some(v)] : p \in Plans \cup {prior}, v \in UpdateVersions}

\* the listing of a collection: only TheCollection of TheDatabase holds indexes
ListingOf(database, collection) ==
    IF database = TheDatabase /\ collection = TheCollection THEN indexes ELSE <<>>

\* the outcomes of Indexes().List: the listing, or a driver error
ListOutcomes(database, collection) ==
    {Listed(ListingOf(database, collection)), ListFailed}

Named(rawIndexes, name) == Match(rawIndexes, name) # 0

\* the database accepts an index model when no index has its name, or when
\* the index of that name is the very index the model describes
Accepts(rawIndexes, model) ==
    LET name == model.Options["name"].s
    IN  Named(rawIndexes, name) => rawIndexes[Match(rawIndexes, name)] = StoredEntry(model)

\* a mutation of the database in which a created index is not listed
Store_NotListed(rawIndexes, model) == rawIndexes

Store(rawIndexes, model) ==
    IF Named(rawIndexes, model.Options["name"].s) THEN rawIndexes
    ELSE Append(rawIndexes, StoredEntry(model))

Drop(rawIndexes, name) ==
    SelectSeq(rawIndexes, LAMBDA e : e["name"] # BStr(name))

Called(op) == lastOp' = op

\* one call to the database and the error the driver returned for it
Call(name, err) == [call |-> name, err |-> err]

\* a client operation: the database calls it issued so far, whether it has
\* returned, and the error it returned
ClientOp(op, calls, done, err) == [op |-> op, calls |-> calls, done |-> done, err |-> err]

\* CreateIndex: one CreateOne call; when it failed CreateIndex returns the
\* error, otherwise it goes on to GetIndex
CreateIndexCalled(createErr) ==
    ClientOp("CreateIndex", <<Call("CreateOne", createErr)>>, createErr # NoError, createErr)

\* GetIndex: one List call, whose error is returned as it is
GetIndexCalled(list, got) == ClientOp("GetIndex", <<Call("List", list.err)>>, TRUE, got.err)

\* CreateIndex after CreateOne succeeded: it returns what GetIndex returns
CreateIndexReadBack(op, list, got) ==
    ClientOp("CreateIndex", op.calls \o GetIndexCalled(list, got).calls, TRUE, got.err)

\* a mutation of DeleteIndex that calls DropOne again when it failed
DeleteIndex_RetryOnce(dropErr) ==
    ClientOp("DeleteIndex",
             IF dropErr # NoError
             THEN <<Call("DropOne", dropErr), Call("DropOne", dropErr)>>
             ELSE <<Call("DropOne", dropErr)>>,
             TRUE, dropErr)

\* DeleteIndex: one DropOne call, whose error is returned as it is
DeleteIndex(dropErr) == ClientOp("DeleteIndex", <<Call("DropOne", dropErr)>>, TRUE, dropErr)

InitLifecycle ==
    /\ generation \in {"typed", "json"}
    /\ indexes = <<IdIndex>>
    /\ tfstate = Null
    /\ diags = <<>>
    /\ pc = "idle"
    /\ inflight = Null
    /\ lastOp = "none"
    /\ lastGet = Null
    /\ lastCreate = Null
    /\ client = Null
    /\ importID = Null
    /\ dropKind = [n \in Names |-> "none"]

Init == InitLifecycle /\ IdleValidate /\ IdleKeys

\* CreateIndex, the CreateOne call, shared by both generations: the database
\* stores the index, or the call fails and Create records the error
\* lastCreate records the call: the plan, the caller's Index as handed to
\* CreateIndex, the index model sent, the caller's Index as CreateIndex
\* left it when it returned (Null while the call is in progress), and,
\* while the call is in progress, the listing as the CreateOne call left it
CreateOne(plan, index, model, failed) ==
    /\ pc = "idle"
    /\ tfstate = Null
    /\ Called("Create")
    /\ lastGet' = Null
    /\ \/ /\ Accepts(indexes, model)
          /\ indexes' = Store(indexes, model)
          /\ dropKind' = [dropKind EXCEPT ![plan.name] = "none"]
          /\ pc' = "created"
          /\ inflight' = Some(plan)
          /\ diags' = <<>>
          /\ lastCreate' = Some([plan |-> plan, index |-> index, model |-> model,
                                 after |-> Null, listing |-> Some(indexes')])
          /\ client' = Some(CreateIndexCalled(NoError))
          /\ importID' = Null
          /\ UNCHANGED tfstate
       \/ /\ tfstate' = failed.state
          /\ diags' = failed.diags
          /\ lastCreate' = Some([plan |-> plan, index |-> index, model |-> model,
                                 after |-> Some(index), listing |-> Null])
          /\ client' = Some(CreateIndexCalled(DriverError("CreateOne")))
          /\ importID' = Null
          /\ UNCHANGED <<indexes, dropKind, pc, inflight>>
    /\ UNCHANGED <<generation, vvars, kvars>>

\* Create of the typed generation up to the CreateOne call of CreateIndex
Create ==
    /\ generation = "typed"
    /\ \E plan \in Plans :
          CreateOne(plan, PlanToIndex(plan), CreateIndexModel(PlanToIndex(plan)),
                    CreateResponse(plan, DriverError("CreateOne")))

CreateJ ==
    /\ generation = "json"
    /\ \E plan \in PlansJ :
          CreateOne(plan, PlanToIndexJ(plan), CreateIndexModelJ(PlanToIndexJ(plan)),
                    CreateResponseJ(plan, DriverError("CreateOne")))

\* the rest of Create: CreateIndex reads the index back with GetIndex and
\* Create stores the plan, or records the error
CreateReadBack ==
    /\ pc = "created"
    /\ LET plan == Val(inflight)
           options == GetIndexOptions(plan.name, plan.database, plan.collection)
       IN  \E list \in ListOutcomes(plan.database, plan.collection) :
              \E got \in IF generation = "typed" THEN GetIndex(list, options)
                         ELSE {GetIndexJ(list, options)} :
                 LET resp == IF generation = "typed" THEN CreateResponse(plan, got.err)
                             ELSE CreateResponseJ(plan, got.err)
                 IN  /\ lastGet' = Some([options |-> options, list |-> list, got |-> got])
                     /\ client' = Some(CreateIndexReadBack(Val(client), list, got))
                     /\ importID' = Null
                     /\ tfstate' = resp.state
                     /\ diags' = resp.diags
    /\ LET call == Val(lastCreate)
           indexName == call.model.Options["name"].s
       IN  lastCreate' =
               Some([call EXCEPT !.listing = Null,
                                 !.after =
                        Some(IF generation = "typed"
                             THEN CreateIndexReturn(call.index, indexName)
                             ELSE CreateIndexReturnJ(call.index, indexName))])
    /\ pc' = "idle"
    /\ inflight' = Null
    /\ UNCHANGED <<generation, indexes, lastOp, dropKind, vvars, kvars>>

\* Read of either generation: one GetIndex call, then the response.  A panic
\* in GetIndex aborts the handler: nothing is written and the provider stops.
DoRead ==
    /\ pc = "idle"
    /\ tfstate # Null
    /\ Called("Read")
    /\ lastCreate' = Null
    /\ LET s == Val(tfstate)
           options == GetIndexOptions(s.name, s.database, s.collection)
       IN  \E list \in ListOutcomes(s.database, s.collection) :
              \E got \in IF generation = "typed" THEN GetIndex(list, options)
                         ELSE {GetIndexJ(list, options)} :
                 LET resp == IF generation = "typed" THEN Read(s, got) ELSE ReadJ(s, got)
                 IN  /\ lastGet' = Some([options |-> options, list |-> list, got |-> got])
                     /\ client' = Some(GetIndexCalled(list, got))
                     /\ importID' = Null
                     /\ IF got.err = Panic
                        THEN pc' = "aborted" /\ UNCHANGED <<tfstate, diags>>
                        ELSE /\ tfstate' = resp.state
                             /\ diags' = resp.diags
                             /\ UNCHANGED pc
    /\ UNCHANGED <<generation, indexes, inflight, dropKind, vvars, kvars>>

\* Update of the typed generation.  The framework calls it when the plan
\* differs from the state and no attribute that differs requires replacement
\* (otherwise it calls Delete and then Create); it stores the plan.  In the
\* JSON generation every attribute requires replacement.
Update ==
    /\ generation = "typed"
    /\ pc = "idle"
    /\ tfstate # Null
    /\ Called("Update")
    /\ lastCreate' = Null
    /\ \E plan \in UpdatePlans(Val(tfstate)) :
          /\ Changed(plan, Val(tfstate)) # {}
          /\ Changed(plan, Val(tfstate)) \cap RequiresReplace = {}
          /\ tfstate' = Some(plan)
    /\ diags' = <<>>
    /\ lastGet' = Null
    /\ client' = Null
    /\ importID' = Null
    /\ UNCHANGED <<generation, indexes, pc, inflight, dropKind, vvars, kvars>>

\* Delete of either generation: DeleteIndex drops the index by name; DropOne
\* fails when the collection has no index of that name, or for another cause
Delete ==
    /\ pc = "idle"
    /\ tfstate # Null
    /\ Called("Delete")
    /\ lastCreate' = Null
    /\ lastGet' = Null
    /\ LET s == Val(tfstate)
       IN  \/ /\ Named(ListingOf(s.database, s.collection), s.name)
              /\ indexes' = Drop(indexes, s.name)
              /\ dropKind' = [dropKind EXCEPT ![s.name] = "delete"]
              /\ client' = Some(DeleteIndex(NoError))
              /\ importID' = Null
              /\ tfstate' = DeleteResponse(s, DeleteIndex(NoError).err).state
              /\ diags' = DeleteResponse(s, DeleteIndex(NoError).err).diags
           \/ /\ client' = Some(DeleteIndex(DriverError("DropOne")))
              /\ importID' = Null
              /\ tfstate' = DeleteResponse(s, DeleteIndex(DriverError("DropOne")).err).state
              /\ diags' = DeleteResponse(s, DeleteIndex(DriverError("DropOne")).err).diags
              /\ UNCHANGED <<indexes, dropKind>>
    /\ UNCHANGED <<generation, pc, inflight, vvars, kvars>>

ImportState ==
    /\ pc = "idle"
    /\ tfstate = Null
    /\ Called("ImportState")
    /\ lastCreate' = Null
    /\ lastGet' = Null
    /\ client' = Null
    /\ \E id \in ImportIDs :
          LET resp == IF generation = "typed"
                      THEN ImportStateResponse(id, IndexResourceModel("", "", "", Null))
                      ELSE ImportStateResponse(id, IndexResourceModelJ("", "", "", Null))
          IN  /\ importID' = Some(id)
              /\ tfstate' = resp.state
              /\ diags' = resp.diags
    /\ UNCHANGED <<generation, indexes, pc, inflight, dropKind, vvars, kvars>>

\* another client of the database creates an index
ExternalCreate ==
    /\ \E model \in ExternalModels :
          /\ ~Named(indexes, model.Options["name"].s)
          /\ indexes' = Store(indexes, model)
          /\ dropKind' = [dropKind EXCEPT ![model.Options["name"].s] = "none"]
    /\ UNCHANGED <<generation, tfstate, diags, pc, inflight, lastOp, lastGet, lastCreate,
                   client, importID, vvars, kvars>>

\* another client of the database drops an index
ExternalDrop ==
    /\ \E name \in Names :
          /\ Named(indexes, name)
          /\ indexes' = Drop(indexes, name)
          /\ dropKind' = [dropKind EXCEPT ![name] = "external"]
    /\ UNCHANGED <<generation, tfstate, diags, pc, inflight, lastOp, lastGet, lastCreate,
                   client, importID, vvars, kvars>>

\* Listing entries of other shapes than those the model's database stores,
\* as another server or another client can leave them: the key document
\* missing or not a document, the collation document missing, complete,
\* lacking fields, carrying a field of another type or not a document, and
\* option values of another type than GetIndex asserts
ShapedKeys == {EmptyMap, "key" :> BStr("a_1"), "key" :> BDoc(ListRep, <<<<"a", B32(1)>>>>)}
FullCollation == StoredCollation(BDoc(ListRep, <<<<"locale", BStr("en")>>>>))
ShapedCollations ==
    {EmptyMap,
     "collation" :> FullCollation,
     "collation" :> BDoc(ListRep, <<<<"locale", BStr("en")>>>>),
     "collation" :> BDoc(ListRep, <<<<"locale", BStr("en")>>, <<"strength", B32(2)>>>>),
     "collation" :> BDoc(ListRep, [i \in 1..Len(FullCollation.e) |->
                                     IF FullCollation.e[i][1] = "strength"
                                     THEN <<"strength", B64(3)>> ELSE FullCollation.e[i]]),
     "collation" :> BStr("en")}
ShapedOptions ==
    {u @@ v @@ b :
        u \in {EmptyMap, "unique" :> BBool(TRUE), "unique" :> BStr("yes")},
        v \in {"v" :> B32(2), "v" :> B64(2)},
        b \in {EmptyMap, "bits" :> BStr("26")}}
ShapedEntries ==
    {("name" :> BStr("idx_a")) @@ k @@ c @@ o :
        k \in ShapedKeys, c \in ShapedCollations, o \in ShapedOptions}

\* the resource was imported and the collection holds an index of its name
InitEntries ==
    /\ generation \in {"typed", "json"}
    /\ indexes \in {<<IdIndex, e>> : e \in ShapedEntries}
    /\ tfstate =
           (IF generation = "typed"
            THEN ImportStateResponse("app.users.idx_a", IndexResourceModel("", "", "", Null))
            ELSE ImportStateResponse("app.users.idx_a", IndexResourceModelJ("", "", "", Null))
           ).state
    /\ diags = <<>>
    /\ pc = "idle"
    /\ inflight = Null
    /\ lastOp = "ImportState"
    /\ lastGet = Null
    /\ lastCreate = Null
    /\ client = Null
    /\ importID = Some("app.users.idx_a")
    /\ dropKind = [n \in Names |-> "none"]
    /\ IdleValidate /\ IdleKeys

NextEntries == DoRead

\* Read, and the GetIndex it calls, on listing entries of every shape
SpecEntries == InitEntries /\ [][NextEntries]_vars

Next ==
    \/ Create
    \/ CreateJ
    \/ CreateReadBack
    \/ DoRead
    \/ Update
    \/ Delete
    \/ ImportState
    \/ ExternalCreate
    \/ ExternalDrop

Spec == Init /\ [][Next]_vars

----------------------------------------------------------------------------
(* The lifecycle of one role resource.  The handlers call the client        *)
(* operations UpsertRole, GetRole and DeleteRole, which the sources at hand *)
(* do not define: each is a call that returns an error or none, and GetRole *)
(* returns a role of the database.                                          *)

RoleNames == {"reader", "writer"}
RoleDatabases == {"admin", "app"}
ShortRole(role, db) == [role |-> role, db |-> db]
Privilege(db, collection, actions) ==
    [resource |-> [db |-> db, collection |-> collection], actions |-> actions]
InheritedRoleSets == {{}, {ShortRole("read", "app")}}
PrivilegeSets ==
    {{}, {Privilege("app", "users", {"find"})},
     {Privilege("app", "users", {"find", "insert"})}}

RoleResourceModel(name, database, inheritedRoles, privileges) ==
    [name |-> name, database |-> database,
     inherited_roles |-> inheritedRoles, privileges |-> privileges]

RolePlans ==
    {RoleResourceModel(n, d, i, p) :
        n \in RoleNames, d \in RoleDatabases, i \in InheritedRoleSets, p \in PrivilegeSets}

\* mongodb.Role, as the handlers build and read it
Role(name, database, privileges, roles) ==
    [Name |-> name, Database |-> database, Privileges |-> privileges, Roles |-> roles]

ErrUpsertRole == "failed to upsert role"
ErrGetRole == "failed to get role"
ErrDeleteRole == "failed to delete role"

\* the client operations of the role handlers, by the error they returned
UpsertRole(err) == ClientOp("UpsertRole", <<>>, TRUE, err)
GetRole(err) == ClientOp("GetRole", <<>>, TRUE, err)
DeleteRole(err) == ClientOp("DeleteRole", <<>>, TRUE, err)

\* what GetRole can return: an error, or a role of the database
GetRoleOutcomes ==
    {[role |-> Null, err |-> DriverError("GetRole")]}
    \cup {[role |-> Some(Role(m.name, m.database, m.privileges, m.inherited_roles)),
           err |-> NoError] : m \in RolePlans}

\* RoleResource.Create after UpsertRole returned: the plan is the state
RoleCreateResponse(plan, err) ==
    IF err # NoError
    THEN Response(Null, <<Diag(ErrUpsertRole, err.kind, plan.name)>>)
    ELSE Response(Some(plan), <<>>)

\* RoleResource.Read after GetRole returned: the four attributes are taken
\* from the role
RoleReadResponse(state, got) ==
    IF got.err # NoError
    THEN Response(Some(state), <<Diag(ErrGetRole, got.err.kind, state.name)>>)
    ELSE LET role == Val(got.role)
         IN  Response(Some(RoleResourceModel(role.Name, role.Database,
                                             role.Roles, role.Privileges)), <<>>)

\* RoleResource.Update after UpsertRole returned: the state stays as it was
\* when the call failed
RoleUpdateResponse(state, plan, err) ==
    IF err # NoError
    THEN Response(Some(state), <<Diag(ErrUpsertRole, err.kind, plan.name)>>)
    ELSE Response(Some(plan), <<>>)

\* RoleResource.Delete after DeleteRole returned: an error is recorded, and
\* RemoveResource is called whether or not there was one
RoleDeleteResponse(state, err) ==
    Response(Null, IF err # NoError
                   THEN <<Diag(ErrDeleteRole, err.kind, state.name)>>
                   ELSE <<>>)

InitRoles ==
    /\ generation = "role"
    /\ indexes = <<>>
    /\ tfstate = Null
    /\ diags = <<>>
    /\ pc = "idle"
    /\ inflight = Null
    /\ lastOp = "none"
    /\ lastGet = Null
    /\ lastCreate = Null
    /\ client = Null
    /\ dropKind = <<>>
    /\ importID = Null
    /\ IdleValidate /\ IdleKeys

RoleCreate ==
    /\ tfstate = Null
    /\ Called("Create")
    /\ \E plan \in RolePlans, err \in {NoError, DriverError("UpsertRole")} :
          /\ client' = Some(UpsertRole(err))
          /\ tfstate' = RoleCreateResponse(plan, err).state
          /\ diags' = RoleCreateResponse(plan, err).diags
    /\ UNCHANGED <<generation, indexes, pc, inflight, lastGet, lastCreate, dropKind,
                   importID, vvars, kvars>>

RoleRead ==
    /\ tfstate # Null
    /\ Called("Read")
    /\ \E got \in GetRoleOutcomes :
          /\ client' = Some(GetRole(got.err))
          /\ tfstate' = RoleReadResponse(Val(tfstate), got).state
          /\ diags' = RoleReadResponse(Val(tfstate), got).diags
    /\ UNCHANGED <<generation, indexes, pc, inflight, lastGet, lastCreate, dropKind,
                   importID, vvars, kvars>>

\* no attribute of the role requires replacement: the framework calls Update
\* for every plan that differs from the state
RoleUpdate ==
    /\ tfstate # Null
    /\ Called("Update")
    /\ \E plan \in RolePlans \ {Val(tfstate)},
          err \in {NoError, DriverError("UpsertRole")} :
          /\ client' = Some(UpsertRole(err))
          /\ tfstate' = RoleUpdateResponse(Val(tfstate), plan, err).state
          /\ diags' = RoleUpdateResponse(Val(tfstate), plan, err).diags
    /\ UNCHANGED <<generation, indexes, pc, inflight, lastGet, lastCreate, dropKind,
                   importID, vvars, kvars>>

RoleDelete ==
    /\ tfstate # Null
    /\ Called("Delete")
    /\ \E err \in {NoError, DriverError("DeleteRole")} :
          /\ client' = Some(DeleteRole(err))
          /\ tfstate' = RoleDeleteResponse(Val(tfstate), err).state
          /\ diags' = RoleDeleteResponse(Val(tfstate), err).diags
    /\ UNCHANGED <<generation, indexes, pc, inflight, lastGet, lastCreate, dropKind,
                   importID, vvars, kvars>>

NextRoles ==
    \/ RoleCreate
    \/ RoleRead
    \/ RoleUpdate
    \/ RoleDelete

SpecRoles == InitRoles /\ [][NextRoles]_vars

----------------------------------------------------------------------------
(* Claims about the lifecycle.  The predicates below read the record of the *)
(* last GetIndex call: its options, the listing it got and what it returned *)

GetIndexListed == lastGet # Null /\ Val(lastGet).list.err = NoError
Requested == Val(lastGet).options
ListedNames ==
    {Val(lastGet).list.rawIndexes[i]["name"].s :
        i \in {j \in 1..Len(Val(lastGet).list.rawIndexes) :
                  "name" \in DOMAIN Val(lastGet).list.rawIndexes[j]}}

\* C8: GetIndex returns a NotFoundError carrying the requested name exactly
\* when the listing has no entry of that name; when an entry matches, it
\* returns no error and an Index whose name, database and collection are
\* the requested ones.
C8_GetIndexNotFound ==
    GetIndexListed =>
        LET got == Val(lastGet).got
        IN  /\ (got.err.kind = "NotFoundError") <=> (Requested.Name \notin ListedNames)
            /\ got.err.kind = "NotFoundError" => got.err.name = Requested.Name
            /\ Requested.Name \in ListedNames =>
                   /\ got.err = NoError
                   /\ got.index # Null
                   /\ Val(got.index).Name = Requested.Name
                   /\ Val(got.index).Database = Requested.Database
                   /\ Val(got.index).Collection = Requested.Collection

\* an entry that is not the first of the listing matched
C8_Witness ==
    /\ GetIndexListed
    /\ Requested.Name \in ListedNames
    /\ Cardinality(ListedNames) = 3
    /\ Val(lastGet).got.err = NoError

\* a listing with entries, none of the requested name
C8_WitnessNotFound ==
    /\ GetIndexListed
    /\ ListedNames = {"_id_", "idx_b"}
    /\ Val(lastGet).got.err = NotFoundError("idx_a", "index")

ReadCalled == lastOp = "Read" /\ lastGet # Null

\* C9: a Read that finds the index gone from the listing removes the
\* resource from state and records no error; Read records an error only
\* when GetIndex failed with an error other than NotFoundError.
C9_ReadAfterDrop ==
    ReadCalled =>
        /\ (GetIndexListed /\ Requested.Name \notin ListedNames) =>
               (tfstate = Null /\ ~HasError(diags))
        /\ HasError(diags) =>
               Val(lastGet).got.err.kind \notin {"nil", "NotFoundError"}

\* Read after another client dropped the index
C9_Witness ==
    /\ ReadCalled
    /\ GetIndexListed
    /\ Requested.Name \notin ListedNames
    /\ dropKind[Requested.Name] = "external"
    /\ tfstate = Null

\* Read after Delete dropped the index (the resource was imported again)
C9_WitnessDelete ==
    /\ ReadCalled
    /\ GetIndexListed
    /\ Requested.Name \notin ListedNames
    /\ dropKind[Requested.Name] = "delete"
    /\ tfstate = Null

\* Read when the listing could not be obtained
C9_WitnessError ==
    /\ ReadCalled
    /\ ~GetIndexListed
    /\ HasError(diags)
    /\ tfstate # Null

\* The predicates below read the record of the last CreateIndex call.
CommandSent == lastCreate # Null
Declared == Val(lastCreate).plan
Command == Val(lastCreate).model
CreateSucceeded ==
    lastOp = "Create" /\ pc = "idle" /\ CommandSent /\ tfstate # Null /\ ~HasError(diags)

\* the typed generation stamps the version: the command carries v = 2 and
\* the state a successful Create stores has version 2
C12_TypedVersionIsTwo ==
    generation = "typed" =>
        /\ CommandSent =>
               "v" \in DOMAIN Command.Options /\ Command.Options["v"] = B32(2)
        /\ CreateSucceeded => Val(tfstate).version = Some(2)

\* C12: every create-index command emitted by CreateIndex carries index
\* format version 2, whatever version the caller declared, and after a
\* successful Create the version attribute of the resource state is 2.
C12_VersionIsTwo ==
    /\ CommandSent =>
           "v" \in DOMAIN Command.Options /\ Command.Options["v"] = B32(2)
    /\ CreateSucceeded =>
           "version" \in DOMAIN Val(tfstate) /\ Val(tfstate).version = Some(2)

\* a plan that declares another version was created by the typed generation
C12_WitnessTyped ==
    /\ generation = "typed"
    /\ CreateSucceeded
    /\ Declared.version = Some(1)

\* the kinds of key the caller's Index declares; a wildcard key is one of
\* type wildcard or one whose field path holds the wildcard marker
DeclaredKeys == Val(Val(lastCreate).index.Keys)
DeclaresType(type) == \E i \in 1..Len(DeclaredKeys) : DeclaredKeys[i].Type = type
DeclaresWildcard ==
    \E i \in 1..Len(DeclaredKeys) :
        DeclaredKeys[i].Type = "wildcard" \/ Contains(DeclaredKeys[i].Field, "$**")
Emits(names) == names \cap DOMAIN Command.Options # {}

GeoOptions == {"bits", "min", "max"}
TextOptions == {"weights", "default_language", "language_override", "textIndexVersion"}

\* C13: in every create-index command, bits/min/max appear only if some key
\* has type 2d; weights, default_language, language_override and the text
\* index version only if some key has type text; wildcardProjection only if
\* some key is a wildcard key; and expireAfterSeconds never appears when
\* some key is a wildcard key.
C13_OptionSuppression ==
    CommandSent =>
        /\ Emits(GeoOptions) => DeclaresType("2d")
        /\ Emits(TextOptions) => DeclaresType("text")
        /\ Emits({"wildcardProjection"}) => DeclaresWildcard
        /\ DeclaresWildcard => ~Emits({"expireAfterSeconds"})

\* C13 for the CreateIndex of the typed generation
C13_TypedSuppression == generation = "typed" => C13_OptionSuppression

\* the typed generation was handed options of other index kinds
C13_WitnessTyped ==
    /\ generation = "typed"
    /\ CommandSent
    /\ ~DeclaresType("2d") /\ ~DeclaresType("text") /\ ~DeclaresWildcard
    /\ Declared.bits # Null /\ Declared.weights # Null
    /\ Declared.wildcard_projection # Null

\* the kinds of index in the order of precedence the specification gives
KindRank == [text |-> 5, wildcard |-> 4, 2dsphere |-> 3, 2d |-> 2, plain |-> 1]
Highest(kinds) == CHOOSE k \in kinds : \A j \in kinds : KindRank[j] <= KindRank[k]

\* the kinds the declared key list shows clues of, and the one inferred
DeclaredClues ==
    {"plain"}
    \cup {k \in {"text", "2dsphere", "2d"} : DeclaresType(k)}
    \cup (IF DeclaresWildcard THEN {"wildcard"} ELSE {})
\* the kinds whose option group is set in the create-index command
GroupsApplied ==
    (IF Emits(TextOptions) THEN {"text"} ELSE {})
    \cup (IF Emits(GeoOptions) THEN {"2d"} ELSE {})
    \cup (IF Emits({"wildcardProjection"}) THEN {"wildcard"} ELSE {})
    \cup (IF Emits({"2dsphereIndexVersion"}) THEN {"2dsphere"} ELSE {})

\* C25: kind inference follows the precedence text > wildcard > 2dsphere >
\* 2d > plain: for a key list showing clues of several kinds exactly one
\* kind is selected, the highest in that order, and only that kind's option
\* group is applied to the create-index command.
C25_KindPrecedence ==
    CommandSent => GroupsApplied \subseteq {Highest(DeclaredClues)}

\* what CreateIndex of the typed generation does: isWildcardIndex, is2dIndex
\* and isTextIndex are computed independently of each other and each option
\* group follows its own flag, so the groups of all kinds the key list
\* shows can be applied together
C25_GroupsFollowClues ==
    (generation = "typed" /\ CommandSent) => GroupsApplied \subseteq DeclaredClues

\* the typed generation applied the option groups of two kinds
C25_WitnessTwoGroups ==
    /\ generation = "typed"
    /\ CommandSent
    /\ DeclaredClues = {"plain", "text", "2d"}
    /\ GroupsApplied = {"text", "2d"}

\* The predicates below read the last GetIndex call that found its entry.
GetIndexFound == GetIndexListed /\ Val(lastGet).got.err = NoError
FoundEntry == Val(lastGet).list.rawIndexes[Match(Val(lastGet).list.rawIndexes, Requested.Name)]
FoundIndex == Val(Val(lastGet).got.index)
ReadFound == GetIndexFound /\ lastOp = "Read" /\ pc = "idle" /\ tfstate # Null

\* the scalar options: name in the listing entry, BSON type, field of the
\* value, field of Index.Options, attribute of the resource state
ScalarOptions ==
    {<<"unique", "bool", "b", "Unique", "unique">>,
     <<"sparse", "bool", "b", "Sparse", "sparse">>,
     <<"hidden", "bool", "b", "Hidden", "hidden">>,
     <<"expireAfterSeconds", "int32", "n", "ExpireAfterSeconds", "expire_after_seconds">>,
     <<"v", "int32", "n", "Version", "version">>}

\* the Index carries the value v for the option: a plain field in the typed
\* generation, a pointer field in the JSON generation
IndexCarries(index, field, v) ==
    /\ field \in DOMAIN index.Options
    /\ IF generation = "typed" THEN index.Options[field] = v
       ELSE index.Options[field] = Some(v)

StateCarries(attribute, v) ==
    attribute \in DOMAIN Val(tfstate) /\ Val(tfstate)[attribute] = Some(v)

\* C14: for each of unique, sparse, hidden, expire-after-seconds and format
\* version, when the listing entry carries the option, the Index returned by
\* GetIndex carries the same value and the Read that follows has that value
\* in the resource state.
C14_ScalarsCopied ==
    \A o \in ScalarOptions :
        (GetIndexFound /\ HasOfType(FoundEntry, o[1], o[2])) =>
            /\ IndexCarries(FoundIndex, o[4], FoundEntry[o[1]][o[3]])
            /\ ReadFound => StateCarries(o[5], FoundEntry[o[1]][o[3]])

\* the part of C14 that the GetIndex of the typed generation does: unique,
\* sparse and the format version are copied into the Index
C14_TypedCopiesIntoIndex ==
    \A o \in {p \in ScalarOptions : p[1] \in {"unique", "sparse", "v"}} :
        (generation = "typed" /\ GetIndexFound /\ HasOfType(FoundEntry, o[1], o[2])) =>
            IndexCarries(FoundIndex, o[4], FoundEntry[o[1]][o[3]])

\* Read left in state a value of unique that the listing entry contradicts
C14_DriftUnseen ==
    /\ ReadFound
    /\ Val(tfstate).unique = Some(TRUE)
    /\ "unique" \notin DOMAIN FoundEntry

\* what GetIndex of the resource's generation returns for a listing that
\* holds one entry
Reconciled(entry) ==
    IF generation = "typed"
    THEN {r.index : r \in GetIndex(Listed(<<entry>>), Requested)}
    ELSE {GetIndexJ(Listed(<<entry>>), Requested).index}

TriStateOptions == {o \in ScalarOptions : o[1] # "v"}
ExplicitZero(o) == IF o[2] = "bool" THEN BBool(FALSE) ELSE B32(0)
WithExplicitZero(entry, o) == (o[1] :> ExplicitZero(o)) @@ entry

\* C15: for each of unique, sparse, hidden and expire-after-seconds, the
\* Index reconciled from a listing entry that omits the option differs from
\* the Index reconciled from the same entry carrying the option explicitly
\* as false or 0.
C15_TriState ==
    \A o \in TriStateOptions :
        (GetIndexFound /\ o[1] \notin DOMAIN FoundEntry) =>
            Reconciled(FoundEntry) \cap Reconciled(WithExplicitZero(FoundEntry, o)) = {}

\* C15 for the JSON generation, whose IndexOptions holds pointers: the
\* omitted option is nil in the Index and the explicit one is not
C15_TriStateJ ==
    \A o \in TriStateOptions :
        (generation = "json" /\ GetIndexFound /\ o[1] \notin DOMAIN FoundEntry) =>
            /\ IsNull(FoundIndex.Options[o[4]])
            /\ \A index \in Reconciled(WithExplicitZero(FoundEntry, o)) :
                   ~IsNull(Val(index).Options[o[4]])

\* the optional settings of C16: attribute of the plan, name in the
\* command, BSON type of the value
CreateOptions ==
    {<<"unique", "unique", "bool">>, <<"sparse", "sparse", "bool">>,
     <<"hidden", "hidden", "bool">>,
     <<"expire_after_seconds", "expireAfterSeconds", "int32">>,
     <<"min", "min", "float64">>, <<"max", "max", "float64">>}

CommandValue(o, v) ==
    CASE o[3] = "bool" -> BBool(v)
      [] o[3] = "int32" -> B32(v)
      [] OTHER -> BDbl(v)

\* the option belongs to the kind of index the plan declares
Applicable(o) ==
    CASE o[1] \in {"min", "max"} -> DeclaresType("2d")
      [] o[1] = "expire_after_seconds" -> ~DeclaresWildcard
      [] OTHER -> TRUE

\* C16: on the create path an option the plan declares, also as false or
\* zero, is emitted to the create-index command with the declared value, and
\* an option the plan does not declare is not emitted.
C16_CreateTriState ==
    \A o \in CreateOptions :
        (CommandSent /\ o[1] \in DOMAIN Declared) =>
            /\ (Declared[o[1]] # Null /\ Applicable(o)) =>
                   /\ o[2] \in DOMAIN Command.Options
                   /\ Command.Options[o[2]] = CommandValue(o, Val(Declared[o[1]]))
            /\ Declared[o[1]] = Null => o[2] \notin DOMAIN Command.Options

\* C16 for the JSON generation, whose Index holds pointers
C16_CreateTriStateJ == generation = "json" => C16_CreateTriState

\* the half of C16 that the typed generation keeps: an option that is not
\* declared is not emitted, and one declared true or non-zero is emitted
C16_TypedTwoStates ==
    \A o \in CreateOptions :
        (generation = "typed" /\ CommandSent) =>
            /\ (Declared[o[1]] # Null /\ Applicable(o)
                    /\ Val(Declared[o[1]]) # (IF o[3] = "bool" THEN FALSE ELSE 0)) =>
                   /\ o[2] \in DOMAIN Command.Options
                   /\ Command.Options[o[2]] = CommandValue(o, Val(Declared[o[1]]))
            /\ Declared[o[1]] = Null => o[2] \notin DOMAIN Command.Options

\* the JSON generation sent an option declared as false
C16_WitnessJ ==
    /\ generation = "json"
    /\ CommandSent
    /\ Declared.sparse = Some(FALSE)
    /\ Declared.expire_after_seconds = Null

\* a step in which Update stored a plan
UpdateStep == lastOp' = "Update" /\ tfstate' # tfstate /\ tfstate # Null /\ tfstate' # Null

\* C17: an existing index is never altered in place.  Update issues no
\* create-index, list-indexes or drop-index call (the listing is unchanged
\* and no CreateIndex or GetIndex call is recorded) and stores the plan;
\* every attribute that Create sends to the database requires replacement,
\* so Update leaves all of them as they were and a change of them is a
\* Delete followed by a Create.
C17_NoInPlaceUpdate ==
    [][/\ SentAttributes \subseteq RequiresReplace
       /\ UpdateStep =>
              /\ indexes' = indexes
              /\ lastGet' = Null /\ lastCreate' = Null /\ pc' = "idle"
              /\ \A a \in SentAttributes : Val(tfstate')[a] = Val(tfstate)[a]
              /\ Val(tfstate') \in UpdatePlans(Val(tfstate))]_vars

\* Update changed the version of a resource whose index exists
C17_Witness ==
    /\ lastOp = "Update"
    /\ tfstate # Null
    /\ Val(tfstate).version = Some(1)
    /\ Named(indexes, Val(tfstate).name)

\* CreateIndex returned: the caller's Index as handed over and as left
CreateIndexReturned == CommandSent /\ Val(lastCreate).after # Null
IndexBefore == Val(lastCreate).index
IndexAfter == Val(Val(lastCreate).after)

\* C18: after CreateIndex returns, with or without error, the caller's Index
\* value, including its name and its options, is unchanged.
C18_InputUnchanged == CreateIndexReturned => IndexAfter = IndexBefore

\* what CreateIndex keeps of C18: the Index is unchanged when CreateOne
\* failed, the JSON generation leaves it unchanged throughout, and the typed
\* generation changes nothing but Options.Version
C18_UnchangedButVersion ==
    CreateIndexReturned =>
        /\ (HasError(diags) /\ lastGet = Null) => IndexAfter = IndexBefore
        /\ generation = "json" => IndexAfter = IndexBefore
        /\ generation = "typed" =>
               [IndexAfter EXCEPT !.Options.Version = IndexBefore.Options.Version]
                   = IndexBefore

\* a step in which Delete is called for a resource whose identity triple
\* matches no index of the database
DeleteOfMissing ==
    /\ lastOp' = "Delete" /\ lastOp # "Delete"
    /\ tfstate # Null
    /\ ~Named(ListingOf(Val(tfstate).database, Val(tfstate).collection),
              Val(tfstate).name)

\* C19: Delete is idempotent: deleting an index whose identity triple has
\* no matching index in the database is treated as success, records no
\* error diagnostic and removes the resource from state.
C19_DeleteIdempotent ==
    [][DeleteOfMissing => (~HasError(diags') /\ tfstate' = Null)]_vars

\* what Delete does instead: the error DropOne returns for the missing
\* index is recorded and the resource stays in state
C19_DeleteOfMissingFails ==
    [][DeleteOfMissing =>
          /\ diags' = <<Diag(ErrDelete, "driver", Val(tfstate).name)>>
          /\ tfstate' = tfstate]_vars

\* the first Read after a Create that declared a partial filter, on the
\* index as Create made it
FilterDeclared == CommandSent /\ Declared.partial_filter_expression # Null
ReadOfCreated ==
    /\ lastOp = "Create" /\ lastOp' = "Read"
    /\ FilterDeclared
    /\ GetIndexFound'
    /\ FoundEntry' = StoredEntry(Command)

\* C20: for every declared partial_filter_expression, Create sends a value
\* derived from it to the database, and the Read that follows writes into
\* state a value equal to the declared one, for boolean, integer, float and
\* string leaves alike.
C20_FilterSymmetric ==
    [][/\ FilterDeclared => "partialFilterExpression" \in DOMAIN Command.Options
       /\ ReadOfCreated =>
              /\ tfstate' # Null
              /\ Val(tfstate').partial_filter_expression
                     = Declared.partial_filter_expression]_vars

\* a declared leaf in the form fmt.Sprintf prints it back: true or false,
\* an integer or float literal without "+", without leading zeros and
\* without a trailing zero or an empty fraction, or a text that is no number
CanonicalLeaf(v) ==
    \/ v \in {"true", "false"}
    \/ ~ParseFloatOK(v)
    \/ /\ ~(Signed(v) /\ SubSeq(v, 1, 1) = "+")
       /\ LET body == Unsigned(v)
              dot == IndexOf(body, ".")
              whole == IF dot = 0 THEN body ELSE SubSeq(body, 1, dot - 1)
              frac == IF dot = 0 THEN "" ELSE SubSeq(body, dot + 1, Len(body))
          IN  /\ IsDigits(whole)
              /\ (Len(whole) > 1 => SubSeq(whole, 1, 1) # "0")
              /\ dot # 0 => (IsDigits(frac) /\ SubSeq(frac, Len(frac), Len(frac)) # "0")

\* C20 for the typed generation and filters whose leaves are all canonical
C20_TypedCanonical ==
    [][(generation = "typed" /\ FilterDeclared
           /\ \A k \in DOMAIN Val(Declared.partial_filter_expression) :
                  CanonicalLeaf(Val(Declared.partial_filter_expression)[k])) =>
          /\ "partialFilterExpression" \in DOMAIN Command.Options
          /\ ReadOfCreated =>
                 /\ tfstate' # Null
                 /\ Val(tfstate').partial_filter_expression
                        = Declared.partial_filter_expression]_vars

\* the typed generation read back a filter with leaves of the four kinds
C20_WitnessTyped ==
    /\ generation = "typed"
    /\ lastOp = "Read"
    /\ tfstate # Null
    /\ Val(tfstate).partial_filter_expression
           = Some(("active" :> "true") @@ ("age" :> "18") @@ ("score" :> "1.5")
                  @@ ("status" :> "active"))

\* the typed generation read a filter back in another form than declared
C20_WitnessDrift ==
    /\ generation = "typed"
    /\ lastOp = "Read"
    /\ tfstate # Null
    /\ Val(tfstate).partial_filter_expression = Some(("score" :> "2") @@ ("code" :> "7"))

\* the eight collation fields GetIndex maps: name in the listing entry and
\* attribute of the resource state
CollationFields ==
    [locale |-> "locale", caseLevel |-> "case_level", caseFirst |-> "case_first",
     strength |-> "strength", numericOrdering |-> "numeric_ordering",
     alternate |-> "alternate", maxVariable |-> "max_variable",
     backwards |-> "backwards"]

\* GetIndex was called and the listing holds an entry of the requested name
EntryListed == GetIndexListed /\ Requested.Name \in ListedNames
CarriesCollation == EntryListed /\ IsDocOf(FoundEntry, "collation", ListRep)
\* the mapped fields the database returned in the collation document
ReturnedFields == {f \in DOMAIN CollationFields : DocHas(FoundEntry["collation"], f)}
\* the mapped fields the reconciled collation holds: options.Collation is
\* a struct of plain fields, which holds a value for every field
ReconciledFields ==
    IF Val(lastGet).got.index = Null \/ FoundIndex.Options.Collation = Null THEN {}
    ELSE DOMAIN CollationFields
\* the mapped fields the collation of the resource state holds
StateFields ==
    IF tfstate = Null \/ Val(tfstate).collation = Null THEN {}
    ELSE IF generation = "typed"
         THEN {f \in DOMAIN CollationFields :
                  Val(Val(tfstate).collation)[CollationFields[f]] # Null}
         ELSE DOMAIN CollationFields \cap DOMAIN Val(Val(tfstate).collation).m

\* C23: when the listing entry carries a collation document, the collation
\* GetIndex returns, and the collation Read writes into state, hold exactly
\* the fields the database returned: an omitted field stays absent.
C23_CollationAsReturned ==
    CarriesCollation =>
        /\ Val(lastGet).got.err = NoError
        /\ ReconciledFields = ReturnedFields
        /\ lastOp = "Read" => (pc = "idle" /\ StateFields = ReturnedFields)

\* what the typed generation does: a collation document that has all eight
\* fields with the asserted types is copied into the Index and into state,
\* and for any other collation document GetIndex panics
C23_TypedAllOrPanic ==
    (generation = "typed" /\ CarriesCollation) =>
        IF CollationPanics(FoundEntry)
        THEN Val(lastGet).got.err = Panic /\ pc = "aborted"
        ELSE /\ ReturnedFields = DOMAIN CollationFields
             /\ ReconciledFields = ReturnedFields
             /\ lastOp = "Read" => StateFields = ReturnedFields
             /\ Val(FoundIndex.Options.Collation).Locale
                    = DocGet(FoundEntry["collation"], "locale").s

\* what the JSON generation does: the collation of the listing entry never
\* reaches the Index
C23_CollationDroppedJ ==
    (generation = "json" /\ CarriesCollation) =>
        /\ Val(lastGet).got.err = NoError
        /\ FoundIndex.Options.Collation = Null

\* the typed generation read an entry whose collation has all eight fields
C23_WitnessFull ==
    /\ generation = "typed" /\ CarriesCollation /\ lastOp = "Read"
    /\ FoundEntry["collation"] = FullCollation
    /\ StateFields = DOMAIN CollationFields

\* the typed generation read an entry whose collation has the locale only
C23_WitnessPartial ==
    /\ generation = "typed" /\ CarriesCollation /\ lastOp = "Read"
    /\ ReturnedFields = {"locale"}
    /\ pc = "aborted"

\* C24: for every listing that contains an entry of the requested name,
\* GetIndex returns an Index without error and without aborting, whatever
\* the shape of the entry: a missing or wrongly typed key document, a
\* collation document lacking some of its fields, or option values of an
\* unexpected type.
C24_DegradesByOmission ==
    EntryListed =>
        /\ Val(lastGet).got.err = NoError
        /\ Val(lastGet).got.index # Null
        /\ pc # "aborted"

\* C24 for the JSON generation, whose convertBsonToIndex uses only checked
\* type assertions
C24_DegradesByOmissionJ == generation = "json" => C24_DegradesByOmission

\* C24 for the typed generation and entries whose collation is missing, not
\* a document, or complete: the key list is left nil for a key document
\* that is missing or not a document, and unique and the version keep their
\* zero value when the entry's value has another type
C24_TypedButCollation ==
    (generation = "typed" /\ EntryListed /\ ~CollationPanics(FoundEntry)) =>
        /\ C24_DegradesByOmission
        /\ ~IsDocOf(FoundEntry, "key", ListRep) => FoundIndex.Keys = Null
        /\ ~HasOfType(FoundEntry, "unique", "bool") => FoundIndex.Options.Unique = FALSE
        /\ ~HasOfType(FoundEntry, "v", "int32") => FoundIndex.Options.Version = 0
        /\ FoundIndex.Options.Bits = 0

\* GetIndex returned an Index for an entry without key document and with
\* values of unexpected types
C24_WitnessOmitted ==
    /\ generation = "typed" /\ EntryListed
    /\ Val(lastGet).got.err = NoError
    /\ "key" \notin DOMAIN FoundEntry
    /\ HasOfType(FoundEntry, "unique", "string")
    /\ HasOfType(FoundEntry, "collation", "string")

ClientCalled == client # Null
Calls == Val(client).calls

\* C26: no database call is retried.  CreateIndex issues exactly one
\* create-index call and, only if it succeeded, exactly one list-indexes
\* call after it; when create-index fails CreateIndex returns an error and
\* issues no further call; GetIndex issues exactly one list-indexes call
\* and DeleteIndex exactly one drop-index call, and a failure of
\* list-indexes or drop-index is returned to the caller as it is.
C26_NoRetry ==
    ClientCalled =>
        /\ Val(client).op = "CreateIndex" =>
               /\ Len(Calls) >= 1 /\ Calls[1].call = "CreateOne"
               /\ Calls[1].err # NoError =>
                      /\ Len(Calls) = 1
                      /\ Val(client).done /\ Val(client).err # NoError
               /\ (Calls[1].err = NoError /\ ~Val(client).done) => Len(Calls) = 1
               /\ (Calls[1].err = NoError /\ Val(client).done) =>
                      /\ Len(Calls) = 2 /\ Calls[2].call = "List"
                      /\ Calls[2].err # NoError => Val(client).err = Calls[2].err
        /\ Val(client).op = "GetIndex" =>
               /\ Len(Calls) = 1 /\ Calls[1].call = "List"
               /\ Calls[1].err # NoError => Val(client).err = Calls[1].err
        /\ Val(client).op = "DeleteIndex" =>
               /\ Len(Calls) = 1 /\ Calls[1].call = "DropOne"
               /\ Val(client).err = Calls[1].err

\* DeleteIndex returned the error of its one DropOne call
C26_Witness ==
    /\ ClientCalled
    /\ lastOp = "Delete"
    /\ Val(client) = DeleteIndex(DriverError("DropOne"))
    /\ HasError(diags)

\* CreateIndex returned the error of the list-indexes call of its read-back
C26_WitnessReadBack ==
    /\ ClientCalled
    /\ lastOp = "Create"
    /\ Calls = <<Call("CreateOne", NoError), Call("List", DriverError("List"))>>
    /\ Val(client).err = DriverError("List")

\* CreateIndex returned after a create-index call that failed
C26_WitnessCreateFailed ==
    /\ ClientCalled
    /\ lastOp = "Create"
    /\ Calls = <<Call("CreateOne", DriverError("CreateOne"))>>
    /\ Val(client).done
    /\ tfstate = Null

\* the read-back step of a CreateIndex whose create-index call succeeded
ReadBackStep ==
    /\ pc = "created" /\ pc' = "idle"
    /\ Val(client).calls = <<Call("CreateOne", NoError)>>
\* no other caller acted between the create-index call and the read-back:
\* the listing is as the create-index call left it
NotInterleaved == Some(indexes) = Val(lastCreate).listing

\* C27, single caller: a CreateIndex whose create-index call succeeded and
\* whose read-back was not preceded by another caller's operation returns
\* the created index (when the list-indexes call itself succeeds); it
\* returns NotFoundError only after another caller dropped the index.
C27_SerialCreateReturns ==
    [][ReadBackStep =>
          /\ (NotInterleaved /\ Val(lastGet').list.err = NoError) =>
                 /\ Val(lastGet').got.err = NoError
                 /\ Val(Val(lastGet').got.index).Name = Val(inflight).name
                 /\ Named(Val(lastGet').list.rawIndexes, Val(inflight).name)
                 /\ tfstate' # Null
          /\ Val(lastGet').got.err.kind = "NotFoundError" =>
                 /\ ~NotInterleaved
                 /\ dropKind[Val(inflight).name] = "external"]_vars

\* C27, two callers: another caller's DeleteIndex took effect between the
\* create-index call and the read-back, and CreateIndex returned
\* NotFoundError although its create-index call succeeded
C27_WitnessRace ==
    /\ lastOp = "Create" /\ pc = "idle"
    /\ ClientCalled
    /\ Calls = <<Call("CreateOne", NoError), Call("List", NoError)>>
    /\ Val(client).err = NotFoundError("idx_a", "index")
    /\ dropKind["idx_a"] = "external"
    /\ tfstate = Null /\ HasError(diags)

\* a single caller: CreateIndex returned the index it created
C27_WitnessSerial ==
    /\ lastOp = "Create" /\ pc = "idle"
    /\ ClientCalled
    /\ Calls = <<Call("CreateOne", NoError), Call("List", NoError)>>
    /\ Val(client).err = NoError
    /\ dropKind["idx_a"] = "none"
    /\ tfstate # Null

\* Create returned: its CreateIndex call has returned
CreateReturned ==
    /\ lastOp = "Create" /\ pc = "idle"
    /\ ClientCalled /\ Val(client).op = "CreateIndex" /\ Val(client).done
\* the identity, the keys and the options of a plan: every attribute but
\* the computed version
PlannedAttributes == DOMAIN Declared \ {"version"}

\* C28: a resource enters state only through a successful creation.  When
\* CreateIndex returns an error, Create records an error diagnostic and
\* writes no state; when it returns without error, Create writes state
\* holding the planned identity, keys and options.
C28_StateOnlyOnSuccess ==
    CreateReturned =>
        /\ Val(client).err # NoError => (HasError(diags) /\ tfstate = Null)
        /\ Val(client).err = NoError =>
               /\ ~HasError(diags)
               /\ tfstate # Null
               /\ \A a \in PlannedAttributes : Val(tfstate)[a] = Declared[a]

\* C28 for the typed generation, whose Create stores the plan itself
C28_TypedStateIsPlan == generation = "typed" => C28_StateOnlyOnSuccess

\* what Create of the JSON generation keeps of C28: no state after an
\* error, and after a success the plan without its sphere_index_version
C28_StateButSphereVersionJ ==
    (generation = "json" /\ CreateReturned) =>
        /\ Val(client).err # NoError => (HasError(diags) /\ tfstate = Null)
        /\ Val(client).err = NoError =>
               /\ ~HasError(diags)
               /\ tfstate # Null
               /\ \A a \in PlannedAttributes \ {"sphere_index_version"} :
                      Val(tfstate)[a] = Declared[a]
               /\ Val(tfstate).sphere_index_version = Null

\* Create of the typed generation failed at the read-back and wrote no state
C28_WitnessTypedError ==
    /\ generation = "typed" /\ CreateReturned
    /\ Len(Calls) = 2
    /\ Val(client).err.kind = "NotFoundError"
    /\ tfstate = Null /\ HasError(diags)

\* Create of the JSON generation stored a plan that declares the version of
\* the 2dsphere index
C28_WitnessSphereJ ==
    /\ generation = "json" /\ CreateReturned
    /\ Val(client).err = NoError
    /\ Declared.sphere_index_version = Some(3)
    /\ tfstate # Null

\* the number of "." in an import ID
Dots(id) == Cardinality({i \in 1..Len(id) : SubSeq(id, i, i) = "."})
\* ImportState returned
Imported == lastOp = "ImportState" /\ importID # Null
\* the state the framework hands to ImportState
EmptyState ==
    IF generation = "typed" THEN IndexResourceModel("", "", "", Null)
    ELSE IndexResourceModelJ("", "", "", Null)
Identity == {"database", "collection", "name"}

\* C29: ImportState accepts an import ID if and only if splitting it on "."
\* gives exactly three parts, that is, the ID holds exactly two "."; it then
\* sets database, collection and name to the parts in that order and no
\* other attribute; for any other part count it records an "Invalid import
\* ID" error and sets no attribute.
C29_ImportThreeParts ==
    Imported =>
        LET id == Val(importID)
        IN  /\ (tfstate # Null /\ ~HasError(diags)) <=> Dots(id) = 2
            /\ Dots(id) = 2 =>
                   LET s == Val(tfstate)
                   IN  /\ id = s.database \o "." \o s.collection \o "." \o s.name
                       /\ Dots(s.database) = 0 /\ Dots(s.collection) = 0
                       /\ Dots(s.name) = 0
                       /\ \A a \in DOMAIN s \ Identity : s[a] = EmptyState[a]
            /\ Dots(id) # 2 =>
                   /\ tfstate = Null
                   /\ Len(diags) = 1
                   /\ Reports(diags, ErrImport, ImportDetail)

\* an ID of three parts was imported
C29_WitnessAccepted ==
    /\ Imported /\ importID = Some("app.users.idx_a")
    /\ tfstate # Null /\ Val(tfstate).name = "idx_a" /\ Val(tfstate).database = "app"
\* an ID whose second part is empty was imported
C29_WitnessEmptyPart ==
    /\ Imported /\ importID = Some("app..idx_a")
    /\ tfstate # Null /\ Val(tfstate).collection = ""
\* IDs of four parts, of two parts and of one part were refused
C29_WitnessFourParts ==
    Imported /\ importID = Some("app.users.idx.a") /\ tfstate = Null /\ HasError(diags)
C29_WitnessTwoParts ==
    Imported /\ importID = Some("app.users") /\ tfstate = Null /\ HasError(diags)
C29_WitnessOnePart ==
    Imported /\ importID = Some("idx_a") /\ tfstate = Null /\ HasError(diags)

\* a step of a Delete handler, of an index or of a role, whose database
\* call returned an error
DeleteFailed ==
    /\ tfstate # Null
    /\ lastOp' = "Delete"
    /\ client' # Null
    /\ Val(client').op \in {"DeleteIndex", "DeleteRole"}
    /\ Val(client').err # NoError

\* C30: when the database call of a resource Delete fails, the resource
\* stays in state: IndexResource.Delete records an error and does not
\* remove the resource, and RoleResource.Delete does not remove the role
\* from state when DeleteRole returned an error.
C30_FailedDeleteKeepsState ==
    [][DeleteFailed => (tfstate' = tfstate /\ HasError(diags'))]_vars

\* what RoleResource.Delete does instead: the error is recorded and the
\* role leaves the state all the same
C30_RoleRemovedAnyway ==
    [][(DeleteFailed /\ Val(client').op = "DeleteRole") =>
          (tfstate' = Null /\ Reports(diags', ErrDeleteRole, "driver"))]_vars

\* C30 for IndexResource.Delete alone
C30_IndexStaysInState ==
    [][(DeleteFailed /\ Val(client').op = "DeleteIndex") =>
          (tfstate' = tfstate /\ Reports(diags', ErrDelete, "driver"))]_vars

\* DeleteRole failed and the role is no longer in state
C30_WitnessRoleGone ==
    /\ generation = "role" /\ lastOp = "Delete"
    /\ client = Some(DeleteRole(DriverError("DeleteRole")))
    /\ tfstate = Null /\ HasError(diags)

\* DeleteIndex failed and the index is still in state
C30_WitnessIndexKept ==
    /\ generation \in {"typed", "json"} /\ lastOp = "Delete"
    /\ client = Some(DeleteIndex(DriverError("DropOne")))
    /\ tfstate # Null /\ HasError(diags)

----------------------------------------------------------------------------
(* Claims about the key codec *)

\* the decoder ran on a document of the Go type it asserts
DecodedByGetIndex == kpc = "decoded" /\ Val(kraw)["key"].rep = "M"
DecodedByConvert == kpc = "converted" /\ Val(kraw)["key"].rep = "D"
RawKeyElements == Val(kraw)["key"].e

\* C1: a declared key list with type tags from {1, -1, text, wildcard, 2d,
\* 2dsphere, hashed}, converted by toBson, stored by the database and decoded
\* from the listing entry, yields exactly the declared set of (field, type)
\* pairs.
C1_KeyRoundTrip ==
    ((DecodedByGetIndex \/ DecodedByConvert) /\ ~IsNull(kdeclared)) =>
        /\ ~IsNull(kdecoded)
        /\ SeqToSet(Val(kdecoded)) = SeqToSet(Val(kdeclared))

\* C1 for key lists of the kinds that do round-trip through GetIndex: keys
\* of types 1, -1 and 2dsphere, the wildcard key on the field "$**", and
\* key lists whose keys are all of type text
C1_RoundTripKinds ==
    (DecodedByGetIndex /\ ~IsNull(kdeclared)
        /\ LET ks == Val(kdeclared)
           IN  \/ \A i \in 1..Len(ks) :
                     \/ ks[i].Type \in {"1", "-1", "2dsphere"} /\ ks[i].Field # "$**"
                     \/ ks[i].Type = "wildcard" /\ ks[i].Field = "$**"
               \/ Len(ks) > 0 /\ \A i \in 1..Len(ks) : ks[i].Type = "text") =>
        /\ ~IsNull(kdecoded)
        /\ SeqToSet(Val(kdecoded)) = SeqToSet(Val(kdeclared))

\* the listing entry carries the text marker field in its key document
TextMarked == ~IsNull(kraw) /\ DocHas(Val(kraw)["key"], "_fts")

\* the raw values a decoder recognizes
RecognizedKeyValues == {B32(1), B32(-1), B64(1), BDbl(-1), BStr("2dsphere")}

\* C10: decoding a key document that is not a text index classifies every
\* element whose value is outside the recognized set as ascending ("1"),
\* and the decoding does not fail.
C10_UnrecognizedIsAscending ==
    ((DecodedByGetIndex \/ DecodedByConvert) /\ IsNull(kdeclared) /\ ~TextMarked) =>
        /\ ~IsNull(kdecoded)
        /\ \A i \in 1..Len(RawKeyElements) :
              RawKeyElements[i][2] \notin RecognizedKeyValues =>
                  IndexKey(RawKeyElements[i][1], "1") \in SeqToSet(Val(kdecoded))

\* C10 restricted to convertBsonToIndex, whose switch has the default case
C10_ConvertDefaultsToAscending == DecodedByConvert => C10_UnrecognizedIsAscending

WeightedFields ==
    IF "weights" \in DOMAIN Val(kraw)
    THEN {Val(kraw)["weights"].e[i][1] : i \in 1..Len(Val(kraw)["weights"].e)}
    ELSE {}

\* C21: when the raw key document carries the text marker field _fts, the
\* decoded key list has exactly one key of type text per weighted field and
\* no key for the marker; when the weights document is missing or empty the
\* decoded key list is the single key (_fts, text).
C21_TextKeysFromWeights ==
    ((DecodedByGetIndex \/ DecodedByConvert) /\ TextMarked) =>
        /\ ~IsNull(kdecoded)
        /\ IF WeightedFields # {}
           THEN /\ SeqToSet(Val(kdecoded)) = {IndexKey(f, "text") : f \in WeightedFields}
                /\ Len(Val(kdecoded)) = Cardinality(WeightedFields)
           ELSE Val(kdecoded) = <<IndexKey("_fts", "text")>>

\* C21 for the GetIndex of the typed generation
C21_TypedTextKeys == DecodedByGetIndex => C21_TextKeysFromWeights

\* what convertBsonToIndex does with a text index: the marker elements are
\* decoded like any other element and the weights are not looked at
C21_ConvertKeepsMarker ==
    (DecodedByConvert /\ TextMarked) =>
        /\ IndexKey("_fts", "text") \in SeqToSet(Val(kdecoded))
        /\ IndexKey("_ftsx", "1") \in SeqToSet(Val(kdecoded))
        /\ Len(Val(kdecoded)) = Len(RawKeyElements)

\* GetIndex decoded a text index with two weighted fields
C21_WitnessTyped ==
    /\ DecodedByGetIndex /\ TextMarked
    /\ WeightedFields = {"title", "body"}
    /\ Len(RawKeyElements) = 3
    /\ SeqToSet(Val(kdecoded)) = {IndexKey("title", "text"), IndexKey("body", "text")}

\* GetIndex decoded a text index whose entry has no weights
C21_WitnessFallback ==
    /\ DecodedByGetIndex /\ TextMarked
    /\ "weights" \notin DOMAIN Val(kraw)
    /\ Val(kdecoded) = <<IndexKey("_fts", "text")>>

\* GetIndex decoded a key document that is not that of a text index
DecodedStandard == DecodedByGetIndex /\ ~TextMarked /\ ~IsNull(kdecoded)
IntegerValue(n) == {B32(n), B64(n)}
WildcardPath(field) == HasSuffix(field, "$**")
DecodedAs(i, type) == IndexKey(RawKeyElements[i][1], type) \in SeqToSet(Val(kdecoded))

\* C22: for a non-text raw key document GetIndex classifies each field by
\* its stored value: integer 1 -> "1", integer -1 -> "-1", the string
\* "2dsphere" -> "2dsphere", and every field path ending in the wildcard
\* marker "$**" ("$**" itself or a sub-path such as "a.$**") with value 1 ->
\* "wildcard".
C22_StandardClassification ==
    DecodedStandard =>
        /\ Len(Val(kdecoded)) = Len(RawKeyElements)
        /\ \A i \in 1..Len(RawKeyElements) :
              LET field == RawKeyElements[i][1]
                  value == RawKeyElements[i][2]
              IN  /\ (value \in IntegerValue(1) /\ WildcardPath(field)) =>
                         DecodedAs(i, "wildcard")
                  /\ (value \in IntegerValue(1) /\ ~WildcardPath(field)) =>
                         DecodedAs(i, "1")
                  /\ value \in IntegerValue(-1) => DecodedAs(i, "-1")
                  /\ value = BStr("2dsphere") => DecodedAs(i, "2dsphere")

\* what GetIndex does: only the field "$**" itself with the int32 value 1
\* is a wildcard key; a sub-path such as "a.$**" with value 1, and "$**"
\* with an int64 value 1, are ascending keys
C22_WildcardOnlyWholePath ==
    DecodedStandard =>
        /\ Len(Val(kdecoded)) = Len(RawKeyElements)
        /\ \A i \in 1..Len(RawKeyElements) :
              LET field == RawKeyElements[i][1]
                  value == RawKeyElements[i][2]
              IN  /\ (value = B32(1) /\ field = "$**") => DecodedAs(i, "wildcard")
                  /\ (value \in IntegerValue(1) /\ ~(value = B32(1) /\ field = "$**")) =>
                         DecodedAs(i, "1")
                  /\ value \in IntegerValue(-1) => DecodedAs(i, "-1")
                  /\ value = BStr("2dsphere") => DecodedAs(i, "2dsphere")

\* GetIndex decoded a sub-path wildcard key next to a 2dsphere key
C22_WitnessSubPath ==
    /\ DecodedStandard
    /\ RawKeyElements = <<<<"a.$**", B32(1)>>, <<"b", BStr("2dsphere")>>>>
    /\ SeqToSet(Val(kdecoded)) = {IndexKey("a.$**", "1"), IndexKey("b", "2dsphere")}

\* the driver-native value the specification gives for a key type tag
NativeKeyValue(type) ==
    CASE type = "1" -> B32(1)
      [] type = "-1" -> B32(-1)
      [] type = "text" -> BStr("text")
      [] type = "2dsphere" -> BStr("2dsphere")
      [] type = "wildcard" -> B32(1)
      [] type = "hashed" -> BStr("hashed")
      [] OTHER -> B32(1)

KeysSent == kpc = "stored" /\ ~IsNull(kdeclared) /\ ~IsNull(ksent)

\* the emitted key document has one entry per declared key, in declared
\* order, with the declared field name
C11_DeclaredOrder ==
    KeysSent =>
        /\ Len(Val(ksent).keys) = Len(Val(kdeclared))
        /\ \A i \in 1..Len(Val(kdeclared)) :
              Val(ksent).keys[i][1] = Val(kdeclared)[i].Field

\* C11: toBson maps each declared key type tag to the driver-native value
\* (1 -> 1, -1 -> -1, text -> "text", 2dsphere -> "2dsphere", wildcard -> 1,
\* hashed -> "hashed", any other tag -> 1), and the emitted key document has
\* one entry per declared key, in declared order, with the declared field
\* name.
C11_ToBsonMapping ==
    KeysSent =>
        /\ C11_DeclaredOrder
        /\ \A i \in 1..Len(Val(kdeclared)) :
              Val(ksent).keys[i][2] = NativeKeyValue(Val(kdeclared)[i].Type)

\* C11 for every tag but hashed, which both toBson switches send as 1
C11_MappingButHashed ==
    KeysSent =>
        /\ C11_DeclaredOrder
        /\ \A i \in 1..Len(Val(kdeclared)) :
              Val(kdeclared)[i].Type # "hashed" =>
                  Val(ksent).keys[i][2] = NativeKeyValue(Val(kdeclared)[i].Type)

\* hashed is sent as the number 1
C11_HashedSentAsOne ==
    KeysSent =>
        \A i \in 1..Len(Val(kdeclared)) :
            Val(kdeclared)[i].Type = "hashed" => Val(ksent).keys[i][2] = B32(1)

----------------------------------------------------------------------------
(* Claims about validation.  The predicates below restate the claims'       *)
(* conditions on the configuration without using the handlers.             *)

Validated == vpc = "done"
TTLSet == ~IsNull(vconfig.expire_after_seconds)
WildcardKey == \E i \in 1..Len(vconfig.keys) : vconfig.keys[i].Type = "wildcard"
TextKey == \E i \in 1..Len(vconfig.keys) : vconfig.keys[i].Type = "text"
\* the fields of VFields whose lower-cased name ends in "at", "date" or "time"
DateLikeFields == {"createdAt", "expireDate", "EventTIME"}
DateLikeKey == \E i \in 1..Len(vconfig.keys) : vconfig.keys[i].Field \in DateLikeFields

\* C2: every configuration with expire_after_seconds set and a key of type
\* wildcard is rejected with an error diagnostic, whatever the other
\* attributes are: the typed generation's ValidateConfig reports the
\* TTL-with-wildcard error, and in the JSON generation, whose schema has no
\* wildcard type, the validation of the configuration reports an error.
C2_TTLWildcardRejected ==
    (Validated /\ TTLSet /\ WildcardKey) =>
        IF vgen = "typed"
        THEN Reports(vdiags, ErrTTL, TTLWildcardDetail)
        ELSE HasError(vdiags \o ValidateKeyTypesJ(vconfig.keys))

C2_Witness ==
    /\ Validated /\ vgen = "typed" /\ TTLSet
    /\ \E i \in 1..Len(vconfig.keys) :
          vconfig.keys[i].Type = "wildcard" /\ vconfig.keys[i].Field = "createdAt"
    /\ ~IsNull(vconfig.wildcard_projection)
    /\ vdiags = <<Diag(ErrTTL, TTLWildcardDetail, "")>>

\* C3: with expire_after_seconds set, a key list with no field whose
\* lower-cased name ends in "at", "date" or "time" always fails validation,
\* with the date-field error unless the wildcard check has already returned;
\* the date-field error is reported only for such a key list, so a key list
\* with at least one such field never fails this check.
C3_DateFieldCheck ==
    (Validated /\ TTLSet) =>
        /\ ~DateLikeKey => HasError(vdiags)
        /\ (~DateLikeKey /\ ~(vgen = "typed" /\ WildcardKey))
              => Reports(vdiags, ErrTTL, TTLDateDetail)
        /\ Reports(vdiags, ErrTTL, TTLDateDetail) => ~DateLikeKey

C3_Witness ==
    /\ Validated /\ TTLSet /\ vgen = "typed"
    /\ vconfig.keys = <<IndexKey("name", "text")>>
    /\ vdiags = <<Diag(ErrTTL, TTLDateDetail, "")>>

C3_WitnessPass ==
    /\ Validated /\ TTLSet /\ vgen = "typed"
    /\ vconfig.keys = <<IndexKey("name", "1"), IndexKey("EventTIME", "1")>>
    /\ vdiags = <<>>

ProjectionSet == ~IsNull(vconfig.wildcard_projection)
\* the projection map has an entry with value n
ProjectionHas(n) ==
    LET p == Val(vconfig.wildcard_projection)
    IN  IF vgen = "typed"
        THEN \E k \in DOMAIN p : p[k] = n
        ELSE p.t = "obj" /\ \E k \in DOMAIN p.m : p.m[k] = JNum(n)

\* C4: a projection map with at least one entry 1 and at least one entry 0
\* always fails validation, with the polarity error unless an earlier check
\* (TTL, or a value other than 0 and 1 in the typed generation) has already
\* returned; the polarity error is reported only for such a map, so a map
\* of only 1s or only 0s never fails this check.
C4_ProjectionPolarity ==
    (Validated /\ ProjectionSet) =>
        /\ (ProjectionHas(1) /\ ProjectionHas(0)) => HasError(vdiags)
        /\ (ProjectionHas(1) /\ ProjectionHas(0) /\ ~Reports(vdiags, ErrProjection, ProjectionMixDetail))
              => (vgen = "typed" /\ vdiags[1].summary \in {ErrTTL, ErrProjectionValue})
        /\ Reports(vdiags, ErrProjection, ProjectionMixDetail)
              => (ProjectionHas(1) /\ ProjectionHas(0))

C4_Witness ==
    /\ Validated /\ vgen = "typed"
    /\ vconfig.wildcard_projection = Some([a |-> 1, b |-> 0])
    /\ vdiags = <<Diag(ErrProjection, ProjectionMixDetail, "")>>

C4_WitnessPass ==
    /\ Validated /\ vgen = "typed"
    /\ vconfig.wildcard_projection = Some([a |-> 0, b |-> 0])
    /\ HasKeyOfType(vconfig.keys, "wildcard")
    /\ vdiags = <<>>

WeightsSet == vgen = "typed" /\ ~IsNull(vconfig.weights)
NonPositiveWeight ==
    \E f \in DOMAIN Val(vconfig.weights) : Val(vconfig.weights)[f] <= 0
\* the checks that run before the weights check
BeforeWeights == {ErrTTL, ErrProjection, ErrProjectionValue}

\* C6: with a text key and weights set, a weight <= 0 always fails
\* validation, with the weight error unless an earlier check has already
\* returned; the weight error is reported only when some weight is <= 0,
\* and a configuration that sets nothing but text keys and positive weights
\* passes.
C6_TextWeights ==
    (Validated /\ WeightsSet /\ TextKey) =>
        /\ NonPositiveWeight => HasError(vdiags)
        /\ (NonPositiveWeight /\ ~Reports(vdiags, ErrWeight, WeightDetail))
              => vdiags[1].summary \in BeforeWeights
        /\ Reports(vdiags, ErrWeight, WeightDetail) => NonPositiveWeight
        /\ (/\ ~NonPositiveWeight
            /\ IsNull(vconfig.expire_after_seconds)
            /\ IsNull(vconfig.wildcard_projection)
            /\ IsNull(vconfig.text_index_version)
            /\ IsNull(vconfig.partial_filter_expression)) => ~HasError(vdiags)

C6_Witness ==
    /\ Validated /\ vgen = "typed" /\ TextKey
    /\ vconfig.weights = Some([title |-> 5, body |-> -1])
    /\ Len(vdiags) = 1 /\ vdiags[1].summary = ErrWeight /\ vdiags[1].subject = "body"

C6_WitnessPass ==
    /\ Validated /\ vgen = "typed" /\ TextKey
    /\ vconfig.weights = Some([title |-> 5, body |-> 1])
    /\ vdiags = <<>>

TextVersionSet == vgen = "typed" /\ ~IsNull(vconfig.text_index_version)
TextVersionOutside == Val(vconfig.text_index_version) \notin {1, 2, 3}
\* the checks that run before the text index version check
BeforeTextVersion == BeforeWeights \cup {ErrWeight}

\* C7: with a text key and text_index_version set, a version outside
\* {1, 2, 3} always fails validation, with the version error unless an
\* earlier check has already returned; the version error is reported only
\* for such a version, and a configuration that sets nothing but text keys
\* and a version in {1, 2, 3} passes.
C7_TextIndexVersion ==
    (Validated /\ TextVersionSet /\ TextKey) =>
        /\ TextVersionOutside => HasError(vdiags)
        /\ (TextVersionOutside /\ ~Reports(vdiags, ErrTextVersion, TextVersionDetail))
              => vdiags[1].summary \in BeforeTextVersion
        /\ Reports(vdiags, ErrTextVersion, TextVersionDetail) => TextVersionOutside
        /\ (/\ ~TextVersionOutside
            /\ IsNull(vconfig.expire_after_seconds)
            /\ IsNull(vconfig.wildcard_projection)
            /\ IsNull(vconfig.weights)
            /\ IsNull(vconfig.partial_filter_expression)) => ~HasError(vdiags)

C7_Witness ==
    /\ Validated /\ vgen = "typed" /\ TextKey
    /\ vconfig.text_index_version = Some(4)
    /\ vconfig.weights = Some([title |-> 5, body |-> 1])
    /\ vdiags = <<Diag(ErrTextVersion, TextVersionDetail, "")>>

C7_WitnessPass ==
    /\ Validated /\ vgen = "typed" /\ TextKey
    /\ vconfig.text_index_version = Some(3)
    /\ vdiags = <<>>

FilterSet == ~IsNull(vconfig.partial_filter_expression)

RECURSIVE KeysOfDoc(_)
\* every key of a JSON document, at any depth through objects and arrays
KeysOfDoc(d) ==
    IF d.t = "obj"
    THEN DOMAIN d.m \cup UNION {KeysOfDoc(d.m[k]) : k \in DOMAIN d.m}
    ELSE IF d.t = "arr"
    THEN UNION {KeysOfDoc(d.a[i]) : i \in 1..Len(d.a)}
    ELSE {}

\* The typed generation declares the filter as a flat map whose keys are
\* dotted paths; the keys of the document it stands for are the path segments.
PathSegments(k) ==
    CASE k = "status.$eq" -> {"status", "$eq"}
      [] k = "status.$regex" -> {"status", "$regex"}
      [] OTHER -> {k}

\* the keys of the declared filter document
FilterKeys ==
    IF vgen = "typed"
    THEN UNION {PathSegments(k) : k \in DOMAIN Val(vconfig.partial_filter_expression)}
    ELSE KeysOfDoc(Val(vconfig.partial_filter_expression))

AllowedOperators ==
    {"$eq", "$exists", "$gt", "$gte", "$lt", "$lte", "$type", "$and", "$or", "$in"}
\* the keys that begin with "$", among the keys the model draws
DollarKeys == {"$eq", "$regex", "$and", "$where"}
UnknownOperators == (FilterKeys \cap DollarKeys) \ AllowedOperators

OnlyFilterSet ==
    /\ IsNull(vconfig.expire_after_seconds)
    /\ IsNull(vconfig.wildcard_projection)
    /\ vgen = "typed" => IsNull(vconfig.weights) /\ IsNull(vconfig.text_index_version)
    /\ vgen = "json" => IsNull(vconfig.collation)

\* C5: for a configuration that sets nothing but keys and a filter document,
\* ValidateConfig reports the filter error, naming an operator of the
\* document that is outside the allow-list, if and only if some key
\* beginning with "$", at any depth, is outside the allow-list.
C5_FilterAllowList ==
    (Validated /\ FilterSet /\ OnlyFilterSet
        /\ Val(vconfig.partial_filter_expression) # JInvalid) =>
        /\ UnknownOperators # {} =>
              /\ Len(vdiags) = 1
              /\ vdiags[1].summary = ErrFilter
              /\ vdiags[1].subject \in UnknownOperators
        /\ UnknownOperators = {} => vdiags = <<>>

\* C5 restricted to the JSON generation, whose check recurses
C5_FilterAllowListJ == vgen = "json" => C5_FilterAllowList

====
